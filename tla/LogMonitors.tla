----------------------------- MODULE LogMonitors -----------------------------
(***************************************************************************)
(* The log followers of the service manager (servicemanagerservice.go) and *)
(* the window that keeps them (ServiceManagerTool.tsx).                    *)
(*                                                                         *)
(* The service has a monitor for each resource it follows: a command that  *)
(* prints its log runs as long as it may, and its lines go into a buffer   *)
(* of limited size.  The window has one started for every resource that is *)
(* looked at and for every one that is picked, and gives up the one looked *)
(* at longest ago when there are too many.  Its list of monitors and the   *)
(* lines it shows are copies, asked for again on the service's events.     *)
(*                                                                         *)
(* Resources are those of one host, and none is a group.  StopLogMonitor,  *)
(* which no window calls, filters and highlighting, and the limit on the   *)
(* lines that are shown are left out.                                      *)
(***************************************************************************)
EXTENDS Integers, FiniteSets, FiniteSetsExt, Functions, Sequences, SequencesExt

CONSTANTS Resources,    \* resources, and the identities of their monitors
          MaxActive,    \* serviceLogMaxActive
          BufferLines,  \* serviceLogBufferBytes and serviceLogTotalBytes, in
          TotalLines,   \* lines of one size
          MaxStarts, MaxLines, \* bound the commands run, and the lines they print
          MaxLogMoves,  \* bounds what the user does, and the commands that end by themselves
          Nil
ASSUME LogBoundsAssumption ==
  {MaxActive, BufferLines, TotalLines, MaxStarts, MaxLines, MaxLogMoves} \subseteq Nat

States == {"monitoring", "stopped", "disconnected"}
Monitors == [state : States, run : Nat, buffer : Seq(Nat), news : BOOLEAN]
Answers == [items : {Nil} \cup [Resources -> States \cup {Nil}]]
Queries == [ids : SUBSET Resources, found : {Nil} \cup SUBSET (Resources \X Nat), dirty : BOOLEAN]
\* Nil is no state, no monitor and no call.
ASSUME NoMonitorAssumption ==
  Nil \notin States /\ Nil \notin Monitors /\ Nil \notin Answers /\ Nil \notin Queries

VARIABLES
  \* The service.
  monitors,   \* the map: the state, the run of the command, the buffer, and
              \* whether lines wait to be announced
  streams,    \* the commands that run
  starts, sequence,
  logWire,    \* events: the monitors that have new lines, or Nil for a change of state
  \* The window.
  list,       \* its copy of the states of the monitors
  load,       \* the last call to GetLogMonitors, if its answer would be taken
  selection,  \* a resource, "picked" or Nil
  picked,     \* pickedMembers
  tracked,    \* autoMonitorsRef, the one looked at longest ago first
  flows,      \* runs of ensureSelectionMonitors, and of the effect on the picks
  query,      \* the call to QueryLogBuffer under way
  lines,      \* the lines shown
  buffersClearing,  \* the buffers still to be cleared, Nil if none are
  unpicking,  \* what confirmUnpick waits for
  logMoves,
  \* What the properties remember.
  dropped,    \* monitors the window removed, and has heard nothing of since
  discarded,  \* a list of monitors was discarded, or put out of date by an answer
  wiped       \* lines were taken off the window after they had come in

service == <<monitors, streams, starts, sequence>>
follow == <<list, load, selection, picked, tracked, flows>>
reading == <<query, lines, buffersClearing>>
logHistory == <<dropped, discarded, wiped>>
logVars == <<service, logWire, follow, reading, unpicking, logMoves, logHistory>>

NoMonitors == [i \in Resources |-> Nil]

LogInit ==
  /\ monitors = NoMonitors /\ streams = {} /\ starts = 0 /\ sequence = 0 /\ logWire = <<>>
  /\ list = NoMonitors /\ load = [items |-> Nil]
  /\ selection = Nil /\ picked = <<>> /\ tracked = <<>> /\ flows = {}
  /\ query = Nil /\ lines = {} /\ buffersClearing = Nil /\ unpicking = Nil /\ logMoves = 0
  /\ dropped = {} /\ discarded = FALSE /\ wiped = FALSE

LogMove == logMoves < MaxLogMoves /\ logMoves' = logMoves + 1

(***************************************************************************)
(* The service.                                                            *)
(***************************************************************************)
Monitoring(i) == monitors[i] # Nil /\ monitors[i].state = "monitoring"
ActiveCount == Cardinality({i \in Resources : Monitoring(i)})

\* A command may still run when its monitor is gone, or follows another one.
Known(s) == monitors[s.id] # Nil
Current(s) == monitors[s.id] # Nil /\ monitors[s.id].run = s.run

\* StartLogMonitors takes the resources of a call one by one.
InService(f) == f \in flows /\ f.todo # <<>>
Handled(f, i, result) == flows' = (flows \ {f}) \cup {[f EXCEPT !.todo = Tail(@), !.out[i] = result, !.held = 0]}

Reuse(f) ==
  /\ InService(f) /\ f.held = 0
  /\ LET i == Head(f.todo) IN Monitoring(i) /\ flows' = (flows \ {f}) \cup {[f EXCEPT !.held = monitors[i].run]}
  /\ UNCHANGED <<service, logWire, list, load, selection, picked, tracked, reading, unpicking, logMoves, logHistory>>

\* What it answers of a monitor that was there it reads after the unlock.  One
\* that is gone, or another one, by then is answered with the state it had last:
\* any, as its command may have ended before.
LastStates(i, run) == IF monitors[i] # Nil /\ monitors[i].run = run THEN {monitors[i].state} ELSE States
ReadState(f) ==
  /\ InService(f) /\ f.held # 0
  /\ LET i == Head(f.todo) IN \E state \in LastStates(i, f.held) : Handled(f, i, state)
  /\ UNCHANGED <<service, logWire, list, load, selection, picked, tracked, reading, unpicking, logMoves, logHistory>>

RefuseStart(f) ==
  /\ InService(f) /\ f.held = 0
  /\ LET i == Head(f.todo) IN ~Monitoring(i) /\ ActiveCount >= MaxActive /\ Handled(f, i, "failed")
  /\ UNCHANGED <<service, logWire, list, load, selection, picked, tracked, reading, unpicking, logMoves, logHistory>>

\* A monitor that was there keeps its buffer.
StartFollower(f) ==
  /\ InService(f) /\ f.held = 0 /\ starts < MaxStarts
  /\ LET i == Head(f.todo)
         old == monitors[i]
     IN /\ ~Monitoring(i) /\ ActiveCount < MaxActive
        /\ monitors' = [monitors EXCEPT ![i] =
             [state |-> "monitoring", run |-> starts + 1,
              buffer |-> IF old = Nil THEN <<>> ELSE old.buffer,
              news |-> IF old = Nil THEN FALSE ELSE old.news]]
        /\ streams' = streams \cup {[id |-> i, run |-> starts + 1, canceled |-> FALSE]}
        /\ Handled(f, i, "monitoring")
  /\ starts' = starts + 1
  /\ UNCHANGED <<sequence, logWire, list, load, selection, picked, tracked, reading, unpicking, logMoves, logHistory>>

\* appendLogLine: a late line is dropped; the oldest lines go, first of this buffer, then of all.
Lines(ms) == {i \in Resources : ms[i] # Nil /\ ms[i].buffer # <<>>}
Total(ms) == MapThenSumSet(LAMBDA i : Len(ms[i].buffer), Lines(ms))
WithoutFirst(ms, i) == [ms EXCEPT ![i].buffer = Tail(@)]
Cut(ms, i) == IF Len(ms[i].buffer) > BufferLines THEN WithoutFirst(ms, i) ELSE ms
CutAll(ms) ==
  IF Total(ms) > TotalLines
  THEN WithoutFirst(ms, CHOOSE i \in Lines(ms) : \A j \in Lines(ms) : Head(ms[i].buffer) <= Head(ms[j].buffer))
  ELSE ms

Line(s) ==
  /\ s \in streams /\ sequence < MaxLines
  /\ Current(s) /\ ~s.canceled
  /\ sequence' = sequence + 1
  /\ monitors' = CutAll(Cut([monitors EXCEPT ![s.id].buffer = Append(@, sequence + 1), ![s.id].news = TRUE], s.id))
  /\ UNCHANGED <<streams, starts, logWire, follow, reading, unpicking, logMoves, logHistory>>

\* runLogMonitor, after the command: cancelled, or because it ended or failed.
Settle(s, state) ==
  /\ streams' = streams \ {s}
  /\ IF Current(s)
     THEN monitors' = [monitors EXCEPT ![s.id].state = state] /\ logWire' = Append(logWire, Nil)
     ELSE UNCHANGED <<monitors, logWire>>
  /\ UNCHANGED <<starts, sequence, follow, reading, unpicking, logHistory>>
CommandCanceled(s) == s \in streams /\ s.canceled /\ Settle(s, "stopped") /\ UNCHANGED logMoves
CommandEnds(s) == s \in streams /\ ~s.canceled /\ LogMove /\ \E state \in {"stopped", "disconnected"} : Settle(s, state)

\* flushLogBatches.
News == {i \in Resources : monitors[i] # Nil /\ monitors[i].news}
Flush ==
  /\ News # {}
  /\ logWire' = Append(logWire, News)
  /\ monitors' = [i \in Resources |-> IF i \in News THEN [monitors[i] EXCEPT !.news = FALSE] ELSE monitors[i]]
  /\ UNCHANGED <<streams, starts, sequence, follow, reading, unpicking, logMoves, logHistory>>

\* RemoveLogMonitor.  Of a monitor that is not there it changes nothing.
Canceled(s) == [s EXCEPT !.canceled = TRUE]
RemoveMonitor(i) ==
  /\ monitors' = [monitors EXCEPT ![i] = Nil]
  /\ streams' = {IF s.id = i /\ Current(s) THEN Canceled(s) ELSE s : s \in streams}
  /\ dropped' = dropped \cup {i}
  /\ UNCHANGED <<starts, sequence>>

\* What QueryLogBuffer finds for some monitors.
FoundLines(ids) == UNION {{<<i, n>> : n \in Range(monitors[i].buffer)} : i \in {i \in ids : monitors[i] # Nil}}

(***************************************************************************)
(* The window: the lines of the monitors that are selected.                *)
(***************************************************************************)
Listed(states) == {i \in Resources : states[i] # Nil}
Selected(place, states, picks) ==
  Listed(states) \cap (IF place = "picked" THEN Range(picks) ELSE {place})
ActiveIDs == Selected(selection, list, picked)

Question(ids) == [ids |-> ids, found |-> Nil, dirty |-> FALSE]
Ask == Question(ActiveIDs)
\* The effect on activeMonitorKey: with others selected it starts anew.
Rendered ==
  LET ids == Selected(selection', list', picked')
  IN IF ids = ActiveIDs
     THEN UNCHANGED <<query, lines, wiped>>
     ELSE /\ lines' = {} /\ wiped' = FALSE
          /\ query' = IF ids = {} THEN Nil ELSE Question(ids)

\* run: one question at a time, and another one if something came meanwhile.
Run ==
  query' = IF ActiveIDs = {} THEN Nil
           ELSE IF query = Nil THEN Ask
           ELSE [query EXCEPT !.dirty = TRUE]

QueryHandled ==
  /\ query # Nil /\ query.found = Nil
  /\ query' = [query EXCEPT !.found = FoundLines(query.ids)]
  /\ UNCHANGED <<service, logWire, follow, lines, buffersClearing, unpicking, logMoves, logHistory>>

QueryAnswered ==
  /\ query # Nil /\ query.found # Nil
  /\ lines' = query.found /\ wiped' = FALSE
  /\ query' = IF query.dirty THEN Ask ELSE Nil
  /\ UNCHANGED <<service, logWire, follow, buffersClearing, unpicking, logMoves, dropped, discarded>>

\* loadMonitors: only the answer to the last call is taken.
Load == load' = [items |-> Nil]

EventArrives ==
  /\ logWire # <<>> /\ logWire' = Tail(logWire)
  /\ IF Head(logWire) = Nil THEN Load /\ Run
     ELSE UNCHANGED load /\ (IF Head(logWire) \cap ActiveIDs # {} THEN Run ELSE UNCHANGED query)
  /\ UNCHANGED <<service, list, selection, picked, tracked, flows, lines, buffersClearing, unpicking, logMoves, logHistory>>

LoadHandled ==
  /\ load # Nil /\ load.items = Nil
  /\ load' = [items |-> [i \in Resources |-> IF monitors[i] = Nil THEN Nil ELSE monitors[i].state]]
  /\ UNCHANGED <<service, logWire, list, selection, picked, tracked, flows, reading, unpicking, logMoves, logHistory>>

LoadAnswered ==
  /\ load # Nil /\ load.items # Nil
  /\ list' = load.items /\ load' = Nil
  /\ UNCHANGED <<selection, picked>> /\ Rendered
  /\ dropped' = dropped \cap Listed(load.items) /\ discarded' = FALSE
  /\ UNCHANGED <<service, logWire, tracked, flows, buffersClearing, unpicking, logMoves>>

(***************************************************************************)
(* The window: which resources are followed.                               *)
(***************************************************************************)
\* A run remembers what was listed and picked when it began.
Flow(place, wanted) ==
  [place |-> place, wanted |-> wanted, kept |-> Range(wanted) \cup Range(picked'),
   listed |-> {i \in Resources : list[i] = "monitoring"}, number |-> logMoves + 1,
   todo |-> wanted, held |-> 0, out |-> NoMonitors, again |-> FALSE, victim |-> Nil]
Begin(place, wanted) == flows' = IF wanted = <<>> THEN flows ELSE flows \cup {Flow(place, wanted)}
LookedAt(order, ids) == SelectSeq(order, LAMBDA i : i \notin ids) \o SetToSeq(ids)

\* A resource is looked at.  One that is listed as monitored needs no start.
Select(i) ==
  /\ LogMove
  /\ selection' = i
  /\ UNCHANGED <<list, load, picked>> /\ Rendered
  /\ tracked' = IF list[i] = Nil THEN tracked ELSE LookedAt(tracked, {i})
  /\ Begin(i, IF list[i] = "monitoring" THEN <<>> ELSE <<i>>)
  /\ UNCHANGED <<service, logWire, buffersClearing, unpicking, dropped, discarded>>

\* openPicked.
SelectPicked ==
  /\ LogMove /\ picked # <<>> /\ selection # "picked"
  /\ selection' = "picked"
  /\ UNCHANGED <<list, load, picked>> /\ Rendered
  /\ UNCHANGED <<service, logWire, tracked, flows, buffersClearing, unpicking, dropped, discarded>>

\* addPickedMembers, and the effect that has all of them followed.
Pick(i) ==
  /\ LogMove /\ i \notin Range(picked)
  /\ picked' = Append(picked, i)
  /\ UNCHANGED <<list, load, selection>> /\ Rendered
  /\ Begin("picked", picked')
  /\ UNCHANGED <<service, logWire, tracked, buffersClearing, unpicking, dropped, discarded>>

\* confirmUnpick.  A monitor that was looked at as well is kept.
Unpick(i) ==
  /\ LogMove /\ i \in Range(picked) /\ unpicking = Nil
  /\ unpicking' = [id |-> i, removed |-> list[i] = Nil \/ i \in Range(tracked)]
  /\ UNCHANGED <<service, logWire, follow, reading, logHistory>>

UnpickRemoves ==
  /\ unpicking # Nil /\ ~unpicking.removed
  /\ RemoveMonitor(unpicking.id)
  /\ unpicking' = [unpicking EXCEPT !.removed = TRUE]
  /\ UNCHANGED <<logWire, follow, reading, logMoves, discarded, wiped>>

\* What a change of the list does to a call for it.
Discard == load' = Nil /\ discarded' = (discarded \/ load # Nil)

Unpicked ==
  /\ unpicking # Nil /\ unpicking.removed
  /\ unpicking' = Nil
  /\ picked' = RemoveFirst(picked, unpicking.id)
  /\ selection' = IF selection = "picked" /\ picked' = <<>> THEN Nil ELSE selection
  /\ UNCHANGED list /\ Rendered
  /\ Discard
  /\ Begin("picked", picked')
  /\ UNCHANGED <<service, logWire, tracked, buffersClearing, logMoves, dropped>>

\* The answer of StartLogMonitors, and evictAutoMonitor if the limit was hit.
AllAnswered(f) == f \in flows /\ f.todo = <<>> /\ f.victim = Nil
Accepted(f) == {i \in Range(f.wanted) : f.out[i] # "failed"}
Evictable(f) == SelectSeq(tracked, LAMBDA i : i \in f.listed \ f.kept)
Evicts(f) == Accepted(f) # Range(f.wanted) /\ ~f.again /\ Evictable(f) # <<>>

Merge(f) ==
  /\ list' = [i \in Resources |-> IF i \in Accepted(f) THEN f.out[i] ELSE list[i]]
  /\ UNCHANGED <<selection, picked>> /\ Rendered
  /\ load' = Nil
  /\ discarded' = (\/ discarded \/ load # Nil
                \/ \E i \in Accepted(f) : IF monitors[i] = Nil THEN TRUE ELSE monitors[i].state # f.out[i])
  /\ dropped' = dropped \ {i \in Accepted(f) : monitors[i] # Nil}
  /\ UNCHANGED <<service, logWire, buffersClearing, unpicking, logMoves>>

StartAnswered(f) ==
  /\ AllAnswered(f) /\ ~Evicts(f)
  /\ Merge(f)
  /\ flows' = flows \ {f}
  /\ tracked' = IF f.place = "picked" THEN tracked ELSE LookedAt(tracked, Accepted(f))

StartRefused(f) ==
  /\ AllAnswered(f) /\ Evicts(f)
  /\ Merge(f)
  /\ LET victim == Head(Evictable(f))
     IN /\ tracked' = SelectSeq(tracked, LAMBDA i : i # victim)
        /\ flows' = (flows \ {f}) \cup {[f EXCEPT !.victim = victim]}

\* The victim is removed, and the start tried again.
Evict(f) ==
  /\ f \in flows /\ f.victim # Nil
  /\ RemoveMonitor(f.victim)
  /\ flows' = (flows \ {f}) \cup {[f EXCEPT !.victim = Nil, !.again = TRUE, !.todo = f.wanted, !.out = NoMonitors]}
  /\ UNCHANGED <<logWire, list, load, selection, picked, tracked, reading, unpicking, logMoves, discarded, wiped>>

\* clear: the buffers of the monitors selected, then the lines, then the list.
Clear ==
  /\ LogMove /\ buffersClearing = Nil /\ ActiveIDs # {}
  /\ buffersClearing' = ActiveIDs
  /\ UNCHANGED <<service, logWire, follow, query, lines, unpicking, logHistory>>

ClearBuffer(i) ==
  /\ buffersClearing # Nil /\ i \in buffersClearing
  /\ buffersClearing' = buffersClearing \ {i}
  /\ monitors' = IF monitors[i] = Nil THEN monitors
                 ELSE [monitors EXCEPT ![i].buffer = <<>>, ![i].news = FALSE]
  /\ UNCHANGED <<streams, starts, sequence, logWire, follow, query, lines, unpicking, logMoves, logHistory>>

Cleared ==
  /\ buffersClearing = {}
  /\ buffersClearing' = Nil /\ lines' = {}
  /\ wiped' = (FoundLines(ActiveIDs) # {})
  /\ Load
  /\ UNCHANGED <<service, logWire, list, selection, picked, tracked, flows, query, unpicking, logMoves, dropped, discarded>>

\* Another host is chosen, and this one again.
ChangeTarget ==
  /\ LogMove
  /\ selection' = Nil /\ UNCHANGED <<list, picked>> /\ Rendered
  /\ Load
  /\ UNCHANGED <<service, logWire, tracked, flows, buffersClearing, unpicking, dropped, discarded>>

(***************************************************************************)
(* The specification.                                                      *)
(***************************************************************************)
ServeLogs ==
  \/ \E f \in flows : Reuse(f) \/ ReadState(f) \/ RefuseStart(f) \/ StartFollower(f) \/ Evict(f)
  \/ \E s \in streams : Line(s) \/ CommandCanceled(s) \/ CommandEnds(s)
  \/ Flush \/ QueryHandled \/ LoadHandled \/ UnpickRemoves
  \/ \E i \in Resources : ClearBuffer(i)
HearLogs ==
  \/ EventArrives \/ QueryAnswered \/ LoadAnswered \/ Unpicked \/ Cleared
  \/ \E f \in flows : StartAnswered(f) \/ StartRefused(f)
LogNext ==
  \/ ServeLogs \/ HearLogs
  \/ \E i \in Resources : Select(i) \/ Pick(i) \/ Unpick(i)
  \/ SelectPicked \/ Clear \/ ChangeTarget

LogSpec == LogInit /\ [][LogNext]_logVars

(***************************************************************************)
(* Properties.                                                             *)
(***************************************************************************)
\* The variables have the values the code gives them: no buffer, nor all of
\* them together, holds more than it may.
LogsOK ==
  /\ \A i \in Resources : monitors[i] # Nil =>
       /\ monitors[i].state \in {"monitoring", "stopped", "disconnected"} /\ monitors[i].run \in 1..starts
       /\ Len(monitors[i].buffer) <= BufferLines /\ monitors[i].news \in BOOLEAN
  /\ Total(monitors) <= TotalLines
  /\ \A s \in streams : s.id \in Resources /\ s.run \in 1..starts
  /\ Listed(list) \subseteq Resources /\ selection \in Resources \cup {"picked", Nil}
  /\ IsInjective(picked) /\ IsInjective(tracked)
  /\ \A f \in flows : f.victim # Nil => f.todo = <<>>

\* What runs is what the service knows it runs: a command that nobody has
\* cancelled belongs to the monitor the map has, a monitor listed as monitoring
\* has its command, and there are never more of these than the limit, however
\* removals, evictions and starts cross and whatever ends late
\* (servicemanagerservice.go 1341-1348, 1513-1522).
FollowersAreKnown ==
  /\ \A s \in streams : ~s.canceled => Current(s) /\ Monitoring(s.id)
  /\ \A i \in Resources : Monitoring(i) => \E s \in streams : Current(s) /\ s.id = i /\ ~s.canceled
  /\ Cardinality({s \in streams : ~s.canceled}) <= MaxActive

Rest == flows = {} /\ load = Nil /\ logWire = <<>> /\ unpicking = Nil /\ buffersClearing = Nil
\* When nothing is under way the window lists every monitor with the state it
\* has, and no other.  Two cases excepted: it removed the monitor itself, and
\* does not take it off its list; an answer put the list out of date, or
\* discarded a newer one (ServiceManagerTool.tsx 275-279, 617-622, 684, 805-808).
ListIsCurrent ==
  Rest /\ ~discarded =>
    \A i \in Resources \ dropped : list[i] = IF monitors[i] = Nil THEN Nil ELSE monitors[i].state

\* When nothing is under way no line is missing that the service has of the
\* monitors selected, whatever came in while the window was asking, except for
\* lines that clearing took off the window after they had come in
\* (ServiceManagerTool.tsx 423-457, 761-766).
NoLineIsMissing == Rest /\ query = Nil /\ News = {} /\ ~wiped => FoundLines(ActiveIDs) \subseteq lines

\* The window shows no line of a monitor that is not selected, whichever
\* answer comes last (ServiceManagerTool.tsx 411-419, 441, 468-473).
LinesAreOfSelection == \A line \in lines : line[1] \in ActiveIDs

\* servicemanagerservice.go, ServiceManagerTool.tsx: every command that runs
\* is known, at rest the window lists the monitors there are and misses no
\* line of them, and it never shows one of a monitor that is not selected.
LogsAreFollowed == FollowersAreKnown /\ ListIsCurrent /\ NoLineIsMissing /\ LinesAreOfSelection
==============================================================================
