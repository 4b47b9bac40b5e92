----------------------------- MODULE TaskCenter -----------------------------
(***************************************************************************)
(* The task centre (TaskCenter.tsx) and a task table of the service        *)
(* (imageexport.go; that of sshfiletasks.go is kept the same way): whole   *)
(* snapshots with a revision, announced after the mutex is released, so    *)
(* that one may overtake another.                                          *)
(*                                                                         *)
(* The window keeps the two tables apart: one of them is modelled.  A task *)
(* is a status and the number of its run, which goes up when it is retried *)
(* under its identity.  Progress, speed and the filters are left out.      *)
(***************************************************************************)
EXTENDS Integers, FiniteSets, Folds

CONSTANTS Tasks,
          MaxRevision,  \* bounds the changes of the table
          MaxRuns,      \* bounds the retries of a task
          MaxSubscriptions,
          Absent
ASSUME CenterBoundsAssumption == MaxRevision \in Nat /\ {MaxRuns, MaxSubscriptions} \subseteq Nat \ {0}

Active == {"queued", "running"}
Terminal == {"success", "failed", "canceled"}
Task(status, run) == [status |-> status, run |-> run]
Rows == [status : Active \cup Terminal, run : 1..MaxRuns]
Snapshot(r, content) == [revision |-> r, tasks |-> content]
Tables == [Tasks -> {Absent} \cup Rows]
Snapshots == [revision : Nat, tasks : Tables]
\* Absent is no task, no status, no table and no answer.
ASSUME NoTaskAssumption ==
  /\ Absent \notin Active \cup Terminal /\ Absent \notin Rows
  /\ Absent \notin Tables /\ Absent \notin Snapshots

VARIABLES
  \* The service.
  table, revision,
  created,        \* identities given out
  \* On their way.
  taskWire,       \* events
  fetches,        \* first snapshots asked for, by subscription
  clearing,       \* the answer of ClearImageTasks
  \* The window.
  subscription,   \* of the listener in place
  live,
  buffered,
  current,        \* imageRevision
  statuses,
  pending, shown,
  \* What the properties remember.
  ended,          \* runs that succeeded or failed
  announced,      \* how often the end of a run was announced
  quiet           \* runs whose end may go unannounced

taskService == <<table, revision, created>>
taskView == <<current, statuses, pending, announced>>
centerVars == <<taskService, taskWire, fetches, clearing, subscription, live, buffered, taskView, shown, ended, quiet>>

Empty == [t \in Tasks |-> Absent]
Runs == Tasks \X (1..MaxRuns)

CenterInit ==
  /\ table = Empty /\ revision = 0 /\ created = {}
  /\ taskWire = {} /\ fetches = {[subscription |-> 1, answer |-> Absent]} /\ clearing = Absent
  /\ subscription = 1 /\ live = FALSE /\ buffered = {}
  /\ current = -1 /\ statuses = Empty /\ pending = Absent /\ shown = Empty
  /\ ended = {} /\ announced = [r \in Runs |-> 0] /\ quiet = {}

(***************************************************************************)
(* The table.                                                              *)
(***************************************************************************)
Finished(content) == {t \in Tasks : content[t] # Absent /\ content[t].status \in Terminal}
RunsOf(ids) == {<<t, table[t].run>> : t \in ids}

\* A change and its announcement.
Change(t, task) ==
  /\ revision < MaxRevision
  /\ table' = [table EXCEPT ![t] = task] /\ revision' = revision + 1
  /\ taskWire' = taskWire \cup {Snapshot(revision + 1, table')}
OutsideTable == <<fetches, clearing, subscription, live, buffered, taskView, shown>>

Create(t) ==
  /\ t \notin created /\ created' = created \cup {t}
  /\ Change(t, Task("queued", 1))
  /\ UNCHANGED <<OutsideTable, ended, quiet>>

Start(t) ==
  /\ table[t] # Absent /\ table[t].status = "queued"
  /\ Change(t, [table[t] EXCEPT !.status = "running"])
  /\ UNCHANGED <<OutsideTable, created, ended, quiet>>

\* An end is sure to be announced if nothing else is on its way and the window
\* knows the run.
Calm == taskWire = {} /\ buffered = {} /\ fetches = {} /\ clearing = Absent /\ live
End(t, status) ==
  /\ table[t] # Absent /\ table[t].status \in Active
  /\ status = "success" => table[t].status = "running"
  /\ Change(t, [table[t] EXCEPT !.status = status])
  /\ ended' = IF status = "canceled" THEN ended ELSE ended \cup RunsOf({t})
  /\ quiet' = IF Calm /\ statuses[t] = table[t].status THEN quiet ELSE quiet \cup RunsOf({t})
  /\ UNCHANGED <<OutsideTable, created>>

\* What changes while the news of an end is on its way hides the end.
Hidden(ids) == IF taskWire = {} /\ buffered = {} THEN {} ELSE RunsOf(ids)

\* RetryImageTask and RetryImageExport.
Retry(t) ==
  /\ table[t] # Absent /\ table[t].status \in {"failed", "canceled"} /\ table[t].run < MaxRuns
  /\ Change(t, Task("queued", table[t].run + 1))
  /\ quiet' = quiet \cup Hidden({t})
  /\ UNCHANGED <<OutsideTable, created, ended>>

(***************************************************************************)
(* The window takes a snapshot in.                                         *)
(***************************************************************************)
TaskView == [current |-> current, statuses |-> statuses, pending |-> pending, announced |-> announced]

Outdated(s, now) == s.revision < now

Ends(v, s) ==
  {t \in Tasks : /\ s.tasks[t] # Absent /\ s.tasks[t].status \in {"success", "failed"}
                 /\ v.statuses[t] # Absent /\ v.statuses[t] \notin Terminal}
RecordedIfActive(v, s) ==
  [t \in Tasks |-> IF s.tasks[t] = Absent \/ s.tasks[t].status \in Terminal THEN v.statuses[t] ELSE s.tasks[t].status]
Recorded(v, s) == [t \in Tasks |-> IF s.tasks[t] = Absent THEN v.statuses[t] ELSE s.tasks[t].status]

\* processSnapshot.
Processed(v, s, notify) ==
  IF Outdated(s, v.current) THEN v
  ELSE [current |-> s.revision, pending |-> s.tasks, statuses |-> Recorded(v, s),
        announced |-> [r \in Runs |->
          IF notify /\ r[1] \in Ends(v, s) /\ s.tasks[r[1]].run = r[2] THEN v.announced[r] + 1 ELSE v.announced[r]]]

Becomes(v) == current' = v.current /\ statuses' = v.statuses /\ announced' = v.announced

Later(v) == Becomes(v) /\ pending' = v.pending /\ UNCHANGED shown
\* With commitSnapshots.
AtOnce(v) == Becomes(v) /\ pending' = Absent /\ shown' = IF v.pending = Absent THEN shown ELSE v.pending

SnapshotArrives(e) ==
  /\ e \in taskWire /\ taskWire' = taskWire \ {e}
  /\ IF live THEN Later(Processed(TaskView, e, TRUE)) /\ UNCHANGED buffered
     ELSE buffered' = buffered \cup {e} /\ UNCHANGED <<taskView, shown>>
  /\ UNCHANGED <<taskService, fetches, clearing, subscription, live, ended, quiet>>

\* The timer, once a second.
Commit ==
  /\ pending # Absent
  /\ AtOnce(TaskView)
  /\ UNCHANGED <<taskService, taskWire, fetches, clearing, subscription, live, buffered, ended, quiet>>

(***************************************************************************)
(* Subscribing, and again when the language or the notifications change.   *)
(***************************************************************************)
Resubscribe ==
  /\ subscription < MaxSubscriptions
  /\ subscription' = subscription + 1 /\ live' = FALSE
  /\ fetches' = fetches \cup {[subscription |-> subscription + 1, answer |-> Absent]}
  /\ UNCHANGED <<taskService, taskWire, clearing, buffered, taskView, shown, ended, quiet>>

\* GetImageTasks.  An end it tells of is taken in silently.
Fetch(f) ==
  /\ f \in fetches /\ f.answer = Absent
  /\ fetches' = (fetches \ {f}) \cup {[f EXCEPT !.answer = Snapshot(revision, table)]}
  /\ quiet' = quiet \cup Hidden(Finished(table))
  /\ UNCHANGED <<taskService, taskWire, clearing, subscription, live, buffered, taskView, shown, ended>>

\* Several snapshots are taken in by revision, the newest last.
Newest(ss) == CHOOSE s \in ss : \A u \in ss : u.revision <= s.revision
Taken(now, ss) == MapThenFoldSet(LAMBDA s, v : Processed(v, s, TRUE), now, LAMBDA s : s, Newest, ss)

\* The answer, then what was buffered in the meantime.
FetchAnswered(f) ==
  /\ f \in fetches /\ f.answer # Absent /\ fetches' = fetches \ {f}
  /\ live' = (live \/ f.subscription = subscription)
  /\ AtOnce(Taken(Processed(TaskView, f.answer, FALSE), buffered))
  /\ buffered' = {}
  /\ UNCHANGED <<taskService, taskWire, clearing, subscription, ended, quiet>>

\* One of the three calls fails.  What was buffered stays where it is.
FetchFails(f) ==
  /\ f \in fetches /\ fetches' = fetches \ {f}
  /\ live' = (live \/ f.subscription = subscription)
  /\ UNCHANGED <<taskService, taskWire, clearing, subscription, buffered, taskView, shown, ended, quiet>>

(***************************************************************************)
(* Clearing what is finished.                                              *)
(***************************************************************************)
ClearFinished ==
  /\ clearing = Absent
  /\ \E t \in Tasks : shown[t] # Absent /\ shown[t].status \notin Active
  /\ LET content == [t \in Tasks |-> IF t \in Finished(table) THEN Absent ELSE table[t]]
         cleared == Snapshot(revision + Cardinality(Finished(table)), content)
     IN /\ cleared.revision <= MaxRevision
        /\ table' = content /\ revision' = cleared.revision
        /\ taskWire' = taskWire \cup {cleared} /\ clearing' = cleared
  /\ quiet' = quiet \cup Hidden(Finished(table))
  /\ UNCHANGED <<created, fetches, subscription, live, buffered, taskView, shown, ended>>

ClearAnswered ==
  /\ clearing # Absent /\ clearing' = Absent
  /\ AtOnce(Processed(TaskView, clearing, FALSE))
  /\ UNCHANGED <<taskService, taskWire, fetches, subscription, live, buffered, ended, quiet>>

CenterNext ==
  \/ \E t \in Tasks : Create(t) \/ Start(t) \/ Retry(t) \/ (\E s \in Terminal : End(t, s))
  \/ \E e \in taskWire : SnapshotArrives(e)
  \/ Commit \/ Resubscribe \/ ClearFinished \/ ClearAnswered
  \/ \E f \in fetches : Fetch(f) \/ FetchAnswered(f) \/ FetchFails(f)

CenterSpec == CenterInit /\ [][CenterNext]_centerVars

(***************************************************************************)
(* Properties.                                                             *)
(***************************************************************************)
\* The variables have the values the code gives them.
CenterOK ==
  /\ table \in Tables /\ shown \in Tables
  /\ statuses \in [Tasks -> {Absent} \cup Active \cup Terminal]
  /\ revision \in 0..MaxRevision /\ current \in -1..revision
  /\ subscription \in 1..MaxSubscriptions
  /\ \A f \in fetches : f.subscription <= subscription
  /\ live \in BOOLEAN /\ DOMAIN announced = Runs

\* Snapshots that came before a first answer that failed wait for the next one.
CenterAtRest ==
  /\ taskWire = {} /\ fetches = {} /\ clearing = Absent /\ pending = Absent
  /\ \A s \in buffered : s.revision <= current

\* When nothing is on its way the window shows the table of the service, in
\* whatever order snapshots, first answers and the answer to clearing came, and
\* whichever first answers failed (processSnapshot, the subscription,
\* clearFinishedTasks).
ShownIsTheTable == CenterAtRest => shown = table

\* The end of a run is announced once, and only if the run did succeed or fail.
\* When nothing disturbed its news, it is announced (processSnapshot).
EndsAreAnnouncedOnce ==
  /\ \A r \in Runs : announced[r] = 0 \/ (announced[r] = 1 /\ r \in ended)
  /\ CenterAtRest => \A r \in ended \ quiet : announced[r] = 1

\* TaskCenter.tsx: at rest the window shows the table of the service, and the
\* end of every run is announced once.
TasksAreShown == ShownIsTheTable /\ EndsAreAnnouncedOnce
=============================================================================
