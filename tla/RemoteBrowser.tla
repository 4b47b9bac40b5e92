--------------------------- MODULE RemoteBrowser ---------------------------
(***************************************************************************)
(* The remote file browser: useRemoteFileBrowser.ts, the hook that loads   *)
(* the sources, a directory and a search, and SshFilesTool.tsx, the window *)
(* around it, with the tasks whose end makes it load a directory again.    *)
(*                                                                         *)
(* Three kinds of calls overlap.  Each has a request number, and an answer *)
(* counts only if it is that of the last request of its kind: live says so *)
(* of a call.  A search also ends the directory request in progress.       *)
(*                                                                         *)
(* A path is a member of Paths; NoPath, the empty one, asks for the login  *)
(* directory.  A listing is the version of a directory that was served.    *)
(* Every source has its SSH profile, and no listing in the cache gets as   *)
(* old as its time to live.                                                *)
(*                                                                         *)
(* Windows has this module beside SettingsStore: what both would define    *)
(* has a name here that says whose it is.                                  *)
(***************************************************************************)
EXTENDS Integers, FiniteSets, FiniteSetsExt, Functions

CONSTANTS Sources,      \* file sources, in the order in which they are listed
          Paths, NoPath, Root,
          Login,        \* the login directory of each source
          DefaultPath,  \* the default path of each, NoPath if there is none
          MaxMoves,     \* bounds what the user does
          MaxEvents,    \* bounds what tasks, settings and failures do
          None

Directories == Paths \ {NoPath}
ASSUME SourcesAssumption == Sources \subseteq Nat /\ Sources # {} /\ IsFiniteSet(Sources)
ASSUME PathsAssumption ==
  /\ NoPath \in Paths /\ Root \in Directories
  /\ Login \in [Sources -> Directories] /\ DefaultPath \in [Sources -> Paths]
ASSUME MovesAssumption == MaxMoves \in Nat /\ MaxEvents \in Nat
\* None is no source, no directory of one, no kind of call and no listing.
ASSUME NoneAssumption ==
  None \notin Sources \cup (Sources \X Paths) \cup {"sources", "directory", "search"}
    \cup [what : {"listing", "found"}, source : Sources, path : Paths, version : Nat]

VARIABLES
  \* Outside the window.
  configured,  \* the sources in the configuration
  disk,        \* the version of each directory of each source
  tasks,       \* file tasks that have succeeded and are still listed
  browserCalls,  \* calls in progress
  moves, events,
  \* The hook.
  active,
  sources, sourceID, path,
  effect,      \* the effect that loads the directory is due
  loadKey,     \* directoryLoadKeyRef
  loaded,      \* sourcesLoadedRef
  cache,       \* directoryCacheRef
  kind,        \* loadingKindRef
  loadingSources, loading, searching, searchActive, canceled, error,
  entries,
  \* The window.
  handled,     \* refreshedUploadTasks and refreshedOperationTasks
  \* What the properties remember.
  asked,       \* the path the user asked for last
  missed,      \* directories that changed without a listing being dropped
  eclipsed     \* loading the sources hid that the directory is not shown

outside == <<configured, disk, tasks, moves, events>>
place == <<sources, sourceID, path, effect>>
spinners == <<kind, loadingSources, loading, searching, canceled, error>>
browserHistory == <<asked, missed, eclipsed>>
browserVars == <<outside, browserCalls, active, place, loadKey, loaded, cache, spinners, searchActive, entries, handled, browserHistory>>

Key(s, p) == <<s, p>>
Keys == Sources \X Paths
Listing(s, p, v) == [what |-> "listing", source |-> s, path |-> p, version |-> v]
Found(s, p) == [what |-> "found", source |-> s, path |-> p, version |-> 0]
Resolved(s, p) == IF p = NoPath THEN Login[s] ELSE p
Request(k, s, p) == [kind |-> k, live |-> TRUE, source |-> s, path |-> p, served |-> None]

\* The window is shown for the first time: the sources are being loaded.
BrowserInit ==
  /\ configured = Sources
  /\ disk = [k \in Sources \X Directories |-> 0]
  /\ tasks = {} /\ browserCalls = {Request("sources", None, NoPath)} /\ moves = 0 /\ events = 0
  /\ active = TRUE
  /\ sources = {} /\ sourceID = None /\ path = NoPath /\ effect = FALSE
  /\ loadKey = None /\ loaded = FALSE
  /\ cache = [k \in Keys |-> None]
  /\ kind = "sources" /\ loadingSources = TRUE /\ loading = FALSE /\ searching = FALSE
  /\ searchActive = FALSE /\ canceled = None /\ error = FALSE
  /\ entries = None /\ handled = {}
  /\ asked = None /\ missed = {} /\ eclipsed = FALSE

Move == ~effect /\ moves < MaxMoves /\ moves' = moves + 1 /\ UNCHANGED events
Event == ~effect /\ events < MaxEvents /\ events' = events + 1 /\ UNCHANGED moves

(***************************************************************************)
(* Requests.                                                               *)
(***************************************************************************)
\* The request number goes up: earlier requests of these kinds no longer count.
EndedNever(requests, kinds) == requests
Ended(requests, kinds) == {IF c.kind \in kinds THEN [c EXCEPT !.live = FALSE] ELSE c : c \in requests}

\* The effect's dependencies; it is due again when one of them changes.
Visit(s, p) ==
  /\ sourceID' = s /\ path' = p
  /\ effect' = (effect \/ s # sourceID \/ p # path)

\* loadSources.
LoadSources ==
  /\ browserCalls' = Ended(browserCalls, {"sources"}) \cup {Request("sources", None, NoPath)}
  /\ kind' = "sources" /\ canceled' = None /\ loadingSources' = TRUE /\ error' = FALSE
  /\ eclipsed' = (eclipsed \/ error \/ canceled \in {"directory", "search"})
  /\ UNCHANGED <<loading, searching>>

\* loadDirectory: from the cache, or with a request.  base are the calls in
\* progress and key directoryLoadKeyRef as the caller has left them.
DroppedBy(s, p) ==
  [k \in Keys |-> IF k[1] = s /\ cache[k] # None /\ (k = Key(s, p) \/ cache[k].path = p) THEN None ELSE cache[k]]

LoadDirectory(s, p, force, base, key) ==
  LET kept == IF force THEN DroppedBy(s, p) ELSE cache
      hit == kept[Key(s, p)]
      others == Ended(base, {"directory"})
  IN /\ cache' = kept
     /\ canceled' = None /\ error' = FALSE /\ eclipsed' = FALSE
     /\ UNCHANGED loadingSources
     /\ IF hit # None
        THEN /\ browserCalls' = others
             /\ kind' = None /\ loading' = FALSE
             /\ loadKey' = Key(s, hit.path)
             /\ entries' = hit
             /\ path' = hit.path /\ effect' = (hit.path # path)
        ELSE /\ browserCalls' = others \cup {Request("directory", s, p)}
             /\ kind' = "directory" /\ loading' = TRUE
             /\ entries' = None
             /\ loadKey' = key
             /\ UNCHANGED path /\ effect' = FALSE

\* resetSearchState, followed by loadDirectory.
ResetAndLoad(s, p, force, key) ==
  /\ searchActive' = FALSE /\ searching' = FALSE
  /\ LoadDirectory(s, p, force, Ended(browserCalls, {"search"}), key)

\* executeSearch.
Search ==
  /\ browserCalls' = Ended(browserCalls, {"search", "directory"}) \cup {Request("search", sourceID, path)}
  /\ kind' = "search" /\ canceled' = None /\ searchActive' = TRUE
  /\ searching' = TRUE /\ loading' = TRUE /\ error' = FALSE /\ entries' = None
  /\ eclipsed' = FALSE
  /\ UNCHANGED loadingSources

(***************************************************************************)
(* Answers.                                                                *)
(***************************************************************************)
\* The backend lists a directory.  What it finds otherwise does not change
\* before the answer arrives.
Serve(c) ==
  /\ ~effect /\ c \in browserCalls /\ c.kind = "directory" /\ c.live /\ c.served = None /\ c.source \in configured
  /\ LET p == Resolved(c.source, c.path)
     IN browserCalls' = (browserCalls \ {c}) \cup {[c EXCEPT !.served = Listing(c.source, p, disk[<<c.source, p>>])]}
  /\ UNCHANGED <<outside, active, place, loadKey, loaded, cache, spinners, searchActive, entries, handled, browserHistory>>

AnswerOf(k, c) == ~effect /\ c \in browserCalls /\ c.kind = k /\ browserCalls' = browserCalls \ {c}
Over(k) == kind' = IF kind = k THEN None ELSE kind

\* An answer that no longer counts.
StaleAnswer(c) ==
  /\ ~effect /\ c \in browserCalls /\ ~c.live
  /\ browserCalls' = browserCalls \ {c}
  /\ UNCHANGED <<outside, active, place, loadKey, loaded, cache, spinners, searchActive, entries, handled, browserHistory>>

SourcesArrive(c) ==
  /\ AnswerOf("sources", c) /\ c.live
  /\ sources' = configured
  /\ Visit((CASE sourceID \in configured -> sourceID [] sourceID \notin configured /\ configured = {} -> None [] OTHER -> Min(configured)), path)
  /\ loaded' = TRUE
  /\ loadingSources' = FALSE /\ Over("sources")
  /\ UNCHANGED <<outside, active, loadKey, cache, loading, searching, searchActive, canceled, error, entries, handled, browserHistory>>

\* It becomes the listing that is shown, and that of its path in the cache.
DirectoryArrivesAnyway(c) ==
  /\ AnswerOf("directory", c) /\ c.served # None
  /\ cache' = [cache EXCEPT ![Key(c.source, c.path)] = c.served, ![Key(c.source, c.served.path)] = c.served]
  /\ entries' = c.served
  /\ loadKey' = Key(c.source, c.served.path)
  /\ Visit(sourceID, c.served.path)
  /\ loading' = FALSE /\ Over("directory")
  /\ missed' = {k \in missed : k # <<c.source, c.served.path>> \/ c.served.version # disk[k]}
  /\ UNCHANGED <<outside, active, sources, loaded, loadingSources, searching, searchActive, canceled, error, handled, asked, eclipsed>>

DirectoryArrives(c) == c.live /\ DirectoryArrivesAnyway(c)

SearchArrives(c) ==
  /\ AnswerOf("search", c) /\ c.live /\ c.source \in configured
  /\ entries' = Found(c.source, c.path)
  /\ loading' = FALSE /\ searching' = FALSE /\ Over("search")
  /\ UNCHANGED <<outside, active, place, loadKey, loaded, cache, loadingSources, searchActive, canceled, error, handled, browserHistory>>

\* A call fails, as one for a source that is gone does.
Fails(c) ==
  /\ ~effect /\ c \in browserCalls /\ c.live
  /\ IF c.source \in configured \cup {None} THEN Event ELSE UNCHANGED <<moves, events>>
  /\ browserCalls' = browserCalls \ {c}
  /\ error' = TRUE
  /\ Over(c.kind)
  /\ IF c.kind = "sources"
     THEN loadingSources' = FALSE /\ UNCHANGED <<loading, searching, entries>>
     ELSE /\ loading' = FALSE /\ searching' = (searching /\ c.kind # "search")
          /\ entries' = None /\ UNCHANGED loadingSources
  /\ UNCHANGED <<configured, disk, tasks, active, place, loadKey, loaded, cache, searchActive, canceled, handled, browserHistory>>

(***************************************************************************)
(* Effects.  They run before anything else happens.                        *)
(***************************************************************************)
\* The directory of the source and the path.  "/" and the empty path stand
\* for the default path, where there is one.
Entered ==
  IF sourceID = None \/ DefaultPath[sourceID] = NoPath \/ path \notin {NoPath, Root} THEN path ELSE DefaultPath[sourceID]

PathEffect ==
  /\ effect
  /\ CASE ~active \/ sourceID = None \/ (Entered = path /\ loadKey = Key(sourceID, path)) ->
            effect' = FALSE /\ UNCHANGED <<path, loadKey, cache, browserCalls, spinners, searchActive, entries, eclipsed>>
       [] active /\ sourceID # None /\ Entered # path ->
            path' = Entered /\ UNCHANGED <<effect, loadKey, cache, browserCalls, spinners, searchActive, entries, eclipsed>>
       [] OTHER -> ResetAndLoad(sourceID, path, FALSE, Key(sourceID, path))
  /\ UNCHANGED <<outside, active, sources, sourceID, loaded, handled, asked, missed>>

\* A task that has succeeded changes what is shown: an upload into this path,
\* any other task of this source.
Concerns(t) ==
  /\ t \notin handled
  /\ IF t.upload THEN t.path = path ELSE t.source = sourceID

TaskEffectWith(t, force) ==
  /\ active /\ sourceID # None /\ ~effect
  /\ t \in tasks /\ Concerns(t)
  /\ handled' = handled \cup {t}
  /\ ResetAndLoad(sourceID, path, force, loadKey)
  /\ missed' = missed \cup (IF <<t.source, t.path>> = <<sourceID, path>> THEN {} ELSE {<<t.source, t.path>>})
  /\ UNCHANGED <<outside, active, sources, sourceID, loaded, asked>>

TaskEffectCached(t) == TaskEffectWith(t, FALSE)
TaskEffect(t) == TaskEffectWith(t, TRUE)

(***************************************************************************)
(* The user, while the window is shown.  Most controls are disabled as     *)
(* long as something is loading.                                           *)
(***************************************************************************)
isLoading == loadingSources \/ loading \/ searching
Acts == active /\ Move
Chooses == Acts /\ ~isLoading /\ sourceID # None

\* navigate: a path that is shown already is loaded, another one is left to
\* the effect.
GoTo(p) ==
  /\ browserCalls' = Ended(browserCalls, {"search"})
  /\ searchActive' = FALSE /\ searching' = FALSE
  /\ entries' = None /\ error' = FALSE /\ loading' = TRUE
  /\ Visit(sourceID, p)
  /\ UNCHANGED <<loadKey, cache, kind, loadingSources, canceled, eclipsed>>

NavigateByEffect(p) ==
  /\ Chooses
  /\ asked' = p
  /\ GoTo(p)
  /\ UNCHANGED <<configured, disk, tasks, active, sources, loaded, handled, missed>>

Navigate(p) ==
  /\ Chooses
  /\ asked' = p
  /\ IF p = path
     THEN ResetAndLoad(sourceID, p, FALSE, loadKey) /\ UNCHANGED sourceID
     ELSE GoTo(p)
  /\ UNCHANGED <<configured, disk, tasks, active, sources, loaded, handled, missed>>

SelectSource(s) ==
  /\ Acts /\ ~isLoading /\ s \in sources \ {sourceID}
  /\ asked' = NoPath
  /\ browserCalls' = Ended(browserCalls, {"search"})
  /\ searchActive' = FALSE /\ searching' = FALSE
  /\ entries' = None /\ error' = FALSE /\ loading' = TRUE
  /\ Visit(s, NoPath)
  /\ UNCHANGED <<configured, disk, tasks, active, sources, loadKey, loaded, cache, kind, loadingSources, canceled, handled, missed, eclipsed>>

ExecuteSearch ==
  /\ Chooses
  /\ Search
  /\ UNCHANGED <<configured, disk, tasks, active, place, loadKey, loaded, cache, handled, asked, missed>>

ClearSearch ==
  /\ Chooses /\ searchActive
  /\ ResetAndLoad(sourceID, path, FALSE, loadKey)
  /\ UNCHANGED <<configured, disk, tasks, active, sources, sourceID, loaded, handled, asked, missed>>

ReloadCurrentView ==
  /\ Chooses
  /\ IF searchActive
     THEN Search /\ UNCHANGED <<path, effect, loadKey, cache>>
     ELSE LoadDirectory(sourceID, path, TRUE, browserCalls, loadKey) /\ UNCHANGED <<searching, searchActive>>
  /\ UNCHANGED <<configured, disk, tasks, active, sources, sourceID, loaded, handled, asked, missed>>

\* cancelLoading: every request is given up.  A directory is forgotten only
\* if it is what was loading last.
Cancel ==
  /\ browserCalls' = {}
  /\ kind' = None
  /\ loadKey' = IF kind = "directory" THEN None ELSE loadKey
  /\ loadingSources' = FALSE /\ loading' = FALSE /\ searching' = FALSE
  /\ error' = FALSE /\ canceled' = kind
  /\ eclipsed' = (eclipsed \/ (kind = "sources" /\ (loading \/ error)))

CancelLoading ==
  /\ Acts /\ (loadingSources \/ loading) /\ kind # None
  /\ Cancel
  /\ UNCHANGED <<configured, disk, tasks, active, place, loaded, cache, searchActive, entries, handled, asked, missed>>

RetryCanceledLoading ==
  /\ Acts /\ ~loadingSources /\ ~loading /\ canceled # None
  /\ CASE canceled = "sources" ->
            LoadSources /\ UNCHANGED <<path, effect, loadKey, cache, searchActive, entries>>
       [] canceled = "search" /\ searchActive -> Search /\ UNCHANGED <<path, effect, loadKey, cache>>
       [] OTHER -> IF sourceID = None
                   THEN canceled' = None /\ error' = FALSE
                        /\ UNCHANGED <<path, effect, loadKey, cache, browserCalls, kind, loadingSources, loading, searching, searchActive, entries, eclipsed>>
                   ELSE LoadDirectory(sourceID, path, FALSE, browserCalls, loadKey) /\ UNCHANGED <<searching, searchActive>>
  /\ UNCHANGED <<configured, disk, tasks, active, sources, sourceID, loaded, handled, asked, missed>>

\* The window comes to the front: its effects run, and the sources are loaded
\* if they have not been.
Activate ==
  /\ ~active /\ Move
  /\ active' = TRUE /\ effect' = TRUE
  /\ IF loaded
     THEN UNCHANGED <<browserCalls, spinners, searchActive, eclipsed>>
     ELSE /\ browserCalls' = Ended(browserCalls, {"sources", "search"}) \cup {Request("sources", None, NoPath)}
          /\ kind' = "sources" /\ canceled' = None /\ loadingSources' = TRUE /\ error' = FALSE
          /\ searchActive' = FALSE /\ searching' = FALSE /\ UNCHANGED <<loading, eclipsed>>
  /\ UNCHANGED <<configured, disk, tasks, sources, sourceID, path, loadKey, loaded, cache, entries, handled, asked, missed>>

Deactivate ==
  /\ active /\ Move
  /\ active' = FALSE /\ effect' = TRUE
  /\ IF kind = None THEN UNCHANGED <<browserCalls, spinners, loadKey, eclipsed>> ELSE Cancel
  /\ UNCHANGED <<configured, disk, tasks, sources, sourceID, path, loaded, cache, searchActive, entries, handled, asked, missed>>

(***************************************************************************)
(* Outside the window.                                                     *)
(***************************************************************************)
\* A configuration is imported; only a window in front hears of it.
ConfigReplaced(new) ==
  /\ Event
  /\ new # configured /\ configured' = new
  /\ IF active
     THEN LoadSources
     ELSE UNCHANGED <<browserCalls, spinners, eclipsed>>
  /\ UNCHANGED <<disk, tasks, active, place, loadKey, loaded, cache, searchActive, entries, handled, asked, missed>>

\* An upload or another task has succeeded.
TaskSucceeds(s, p, upload) ==
  /\ Event
  /\ disk' = [disk EXCEPT ![<<s, p>>] = @ + 1]
  /\ tasks' = tasks \cup {[number |-> events, source |-> s, path |-> p, upload |-> upload]}
  /\ UNCHANGED <<configured, browserCalls, active, place, loadKey, loaded, cache, spinners, searchActive, entries, handled, browserHistory>>

\* The task centre clears the tasks that have ended.
ClearTasks ==
  /\ Event /\ tasks # {}
  /\ tasks' = {}
  /\ missed' = missed \cup {<<t.source, t.path>> : t \in tasks \ handled}
  /\ UNCHANGED <<configured, disk, browserCalls, active, place, loadKey, loaded, cache, spinners, searchActive, entries, handled, asked, eclipsed>>

(***************************************************************************)
(* The specification.                                                      *)
(***************************************************************************)
Answer(c) == StaleAnswer(c) \/ SourcesArrive(c) \/ DirectoryArrives(c) \/ SearchArrives(c) \/ Fails(c)

User ==
  \/ \E p \in Directories : Navigate(p)
  \/ \E s \in Sources : SelectSource(s)
  \/ ExecuteSearch \/ ClearSearch \/ ReloadCurrentView
  \/ CancelLoading \/ RetryCanceledLoading
  \/ Activate \/ Deactivate

BrowserNext ==
  \/ \E c \in browserCalls : Serve(c) \/ Answer(c)
  \/ PathEffect \/ \E t \in tasks : TaskEffect(t)
  \/ User
  \/ \E new \in SUBSET Sources : ConfigReplaced(new)
  \/ \E s \in configured, p \in Directories, upload \in BOOLEAN : TaskSucceeds(s, p, upload)
  \/ ClearTasks

BrowserSpec == BrowserInit /\ [][BrowserNext]_browserVars

(***************************************************************************)
(* Properties.                                                             *)
(***************************************************************************)
BrowserOK ==
  /\ configured \subseteq Sources /\ sources \subseteq Sources
  /\ sourceID \in Sources \cup {None} /\ path \in Paths
  /\ \A k \in {"sources", "directory", "search"} : Cardinality({c \in browserCalls : c.kind = k /\ c.live}) <= 1
  /\ kind \in {"sources", "directory", "search", None} /\ canceled \in {"sources", "directory", "search", None}
  /\ searching => loading
  /\ \A k \in Keys : cache[k] # None => cache[k].source = k[1] /\ cache[k].path = Resolved(k[1], k[2])
  /\ handled \in SUBSET [number : Nat, source : Sources, path : Directories, upload : BOOLEAN]

\* The window is in front and has nothing left to do but show its directory.
Live(k) == \E c \in browserCalls : c.kind = k /\ c.live
BrowserAtRest ==
  /\ active /\ sourceID # None /\ ~effect /\ ~isLoading /\ canceled = None /\ ~error
  /\ \A t \in tasks : ~Concerns(t)

\* What is shown is the listing of the source and the path shown above it, or
\* a search in it, whatever answer came late; an empty window is an empty
\* directory.  Except that reloading the sources clears the notice that a
\* directory failed or was cancelled, and cancelling it leaves the directory
\* cancelled with it unloaded (useRemoteFileBrowser.ts 73 and 137-139).
ViewIsOfPath ==
  BrowserAtRest /\ ~eclipsed =>
    entries # None /\ entries.source = sourceID /\ entries.path = path /\ (entries.what = "found" <=> searchActive)

\* What the user has put into a directory with this window is there when the
\* directory is shown, though listings are kept for a day.  Excepted are the
\* changes in missed: those of a task that ended while another directory was
\* shown, other than an upload; an upload taken for one into the same path of
\* the source shown then; a task cleared before its directory was shown.
ChangesAreShown ==
  BrowserAtRest /\ entries # None /\ entries.what = "listing" /\ <<sourceID, path>> \notin missed =>
    entries.version = disk[<<sourceID, path>>]

RootIsDefault == asked = Root /\ (sourceID = None \/ DefaultPath[sourceID] # NoPath)

\* The spinner turns for something that ends: a request whose answer counts,
\* or the effect that is about to make one.  Where there is a default path,
\* asking for "/" may leave it turning, see AskedIsReached.
LoadingHasCause ==
  active =>
    /\ loadingSources => Live("sources")
    /\ searching => Live("search")
    /\ loading => Live("directory") \/ Live("search") \/ effect \/ RootIsDefault

\* The path the user has asked for is the one the window goes to: the default
\* path is an entry point (locales/en-US.json 1828).
AskedIsReached ==
  active /\ ~effect /\ browserCalls = {} /\ canceled = None /\ ~error /\ asked \in Directories =>
    path = asked /\ ~loading
=============================================================================
