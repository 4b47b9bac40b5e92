----------------------------- MODULE FileTasks -----------------------------
(***************************************************************************)
(* sshfiletasks.go: the background tasks of the SSH file manager, composed *)
(* with the limiter of taskscheduler.go.                                   *)
(*                                                                         *)
(* A task is an entry of a table guarded by taskMu; a runner is a          *)
(* goroutine (runRemoteFileOperationTask, runFileUpload, runFileDownload,  *)
(* runSizeTask) that works for it.  A task gets a runner when it is        *)
(* created and another one when the user resolves its name conflicts.      *)
(* Runner and table meet only in short critical sections, and the runner   *)
(* looks at its context before, not inside, the section that publishes its *)
(* result: cancellation, deadline, conflict resolution and clearing come   *)
(* between any two of its steps.                                           *)
(*                                                                         *)
(* What is left out of the table: progress figures, paths, messages, and   *)
(* the snapshots sent to the windows after every change.                   *)
(***************************************************************************)
EXTENDS Integers, FiniteSets

CONSTANTS Tasks,           \* task identifiers
          Kinds,           \* the kinds of task created (a subset of AllKinds)
          MaxRuns,         \* bound on the runners of one task
          LimitRequests    \* values the settings may pass to SetLimit

\* "copy" stands for copy and move, "archive" for compress and extract.
AllKinds == {"copy", "archive", "upload", "download", "size"}

ASSUME KindsAssumption == Kinds \subseteq AllKinds
ASSUME MaxRunsAssumption == MaxRuns \in Nat \ {0}
ASSUME LimitRequestsAssumption == LimitRequests \subseteq Int

\* How the kinds differ: a size computation takes no slot; only a copy or a
\* move may meet conflicts; the remote operations get a 30-minute context;
\* an upload and a size do not look at the context once their work is done.
NeedsSlot(k)     == k # "size"
MayConflict(k)   == k = "copy"
HasDeadline(k)   == k \in {"copy", "archive"}
ChecksContext(k) == k \notin {"upload", "size"}

Runners == Tasks \X (1..MaxRuns)
Owner(r) == r[1]

VARIABLES
  \* The table (fileTaskState), one entry per task.
  kind,       \* Type
  status,     \* Status, with "none" before creation and "cleared" after
  policy,     \* operationPolicy: "ask", "force" (overwrite, keep-both), "none"
  ctx,        \* the context object: "live", "canceled" or "expired"
  attached,   \* the entry still refers to its context and cancel function
  runs,       \* how many runners the task has had
  \* The runners.
  step,       \* where a runner is in its body
  outcome,    \* what its operation returned
  \* The scheduler.
  active, limit, slot, signalled

table   == <<kind, status, policy, ctx, attached, runs>>
workers == <<step, outcome>>
sched   == <<active, limit, slot, signalled>>
vars    == <<table, workers, sched>>

CtxDone(c) == {r \in Runners : c[Owner(r)] # "live"}

Sched == INSTANCE TaskScheduler
           WITH Callers <- Runners, pc <- slot, ctxDone <- CtxDone(ctx)

Life == INSTANCE TaskLifecycle
Busy == Life!Busy
Terminal == Life!Terminal

Present(t) == status[t] \notin {"none", "cleared"}

\* "acquire": inside Acquire; "start": before its first update; "operate":
\* dialling and transferring; "returned": the operation has returned;
\* "finalize": a download publishing its files; "commit" and "finish":
\* about to publish success (or conflict), or the error; "release": the
\* deferred Release; "gone": the goroutine has ended.
Step == {"off", "acquire", "start", "operate", "returned", "finalize",
         "commit", "finish", "release", "gone"}
Outcome == {"none", "done", "conflict", "fail", "ctx"}
Working == Step \ {"off", "release", "gone"}

Init ==
  /\ kind = [t \in Tasks |-> "size"]
  /\ status = [t \in Tasks |-> "none"]
  /\ policy = [t \in Tasks |-> "none"]
  /\ ctx = [t \in Tasks |-> "live"]
  /\ attached = [t \in Tasks |-> FALSE]
  /\ runs = [t \in Tasks |-> 0]
  /\ step = [r \in Runners |-> "off"]
  /\ outcome = [r \in Runners |-> "none"]
  /\ active = 0
  /\ limit \in {Sched!clampTaskLimit(v) : v \in LimitRequests}
  /\ slot = [r \in Runners |-> "idle"]
  /\ signalled = {}

\* cancel(): the first cause of a context's end is the one that stays.
Canceled(c) == IF c = "live" THEN "canceled" ELSE c

\* updateFileTask: no effect on an entry that has been removed.
SetStatus(t, s) ==
  status' = IF Present(t) THEN [status EXCEPT ![t] = s] ELSE status

\* task.cancel(); task.ctx = nil; task.cancel = nil
Detach(t) ==
  /\ ctx' = IF Present(t) /\ attached[t]
            THEN [ctx EXCEPT ![t] = Canceled(@)] ELSE ctx
  /\ attached' = IF Present(t) THEN [attached EXCEPT ![t] = FALSE] ELSE attached

\* go s.run...(ctx, id): the goroutine of run n of task t reaches Acquire,
\* or its first update if it needs no slot.
Launch(t, n, k) ==
  LET r == <<t, n>> IN
  /\ step' = [step EXCEPT ![r] = IF NeedsSlot(k) THEN "acquire" ELSE "start"]
  /\ IF NeedsSlot(k) THEN Sched!Call(r) ELSE UNCHANGED sched
  /\ UNCHANGED outcome

(***************************************************************************)
(* The calls of the user interface.                                        *)
(***************************************************************************)

\* StartRemoteFileOperation, StartFileUpload, StartFileDownload (one task
\* per path) and CalculateRemoteSize.
CreateWith(t, k, p) ==
  /\ status[t] = "none"
  /\ kind' = [kind EXCEPT ![t] = k]
  /\ status' = [status EXCEPT ![t] = "queued"]
  /\ policy' = [policy EXCEPT ![t] = p]
  /\ attached' = [attached EXCEPT ![t] = TRUE]
  /\ runs' = [runs EXCEPT ![t] = 1]
  /\ UNCHANGED ctx
  /\ Launch(t, 1, k)

Create(t) ==
  \E k \in Kinds : \E p \in (IF MayConflict(k) THEN {"ask", "force"} ELSE {"none"}) :
    CreateWith(t, k, p)

\* RetryFileTask(old): a new task with the arguments, and the answered
\* conflict policy, of one that failed or was cancelled.  The code drops
\* taskMu between the test and the creation; as `old` has ended and its
\* arguments are copied, nothing that comes between them matters, not even
\* a second retry of the same task.
Retry(old, t) ==
  /\ status[old] \in {"failed", "canceled"}
  /\ kind[old] # "size"
  /\ CreateWith(t, kind[old], policy[old])

CancelFileTask(t) ==
  /\ Present(t)
  /\ IF status[t] = "conflict"
     THEN status' = [status EXCEPT ![t] = "canceled"] /\ Detach(t)
     ELSE /\ ctx' = IF attached[t] THEN [ctx EXCEPT ![t] = Canceled(@)] ELSE ctx
          /\ UNCHANGED <<status, attached>>
  /\ UNCHANGED <<kind, policy, runs, workers, sched>>

\* A conflict can only be answered while the context is live: the second
\* runner inherits it, and with it the rest of the 30 minutes.
ResolveWith(t, p) ==
  /\ MayConflict(kind[t])
  /\ attached[t] /\ ctx[t] = "live"
  /\ runs[t] < MaxRuns
  /\ policy' = [policy EXCEPT ![t] = p]
  /\ status' = [status EXCEPT ![t] = "queued"]
  /\ runs' = [runs EXCEPT ![t] = @ + 1]
  /\ UNCHANGED <<kind, ctx, attached>>
  /\ Launch(t, runs[t] + 1, kind[t])

\* Careless forms: the status is not looked at; the answer is not recorded.
ResolveAnyStatus(t) == Present(t) /\ ResolveWith(t, "force")
ResolveForgetsAnswer(t) == status[t] = "conflict" /\ ResolveWith(t, policy[t])

Resolve(t) == status[t] = "conflict" /\ ResolveWith(t, "force")

\* Everything that has ended leaves the table at once; a conflict, which
\* still waits for its answer, has not ended.
RetainedIfBusy(st) == st \in Busy
Retained(st) == st \in Busy \cup {"conflict"}
ClearFileTasks ==
  /\ status' = [t \in Tasks |->
                  IF Present(t) /\ ~Retained(status[t]) THEN "cleared" ELSE status[t]]
  /\ UNCHANGED <<kind, policy, ctx, attached, runs, workers, sched>>

\* A form that stores what the settings say without clamping it.
SetLimitRaw(v) ==
  /\ UNCHANGED <<table, workers, active, slot>>
  /\ limit' = v
  /\ signalled' = Sched!Sleepers

SetLimit(v) == UNCHANGED <<table, workers>> /\ Sched!SetLimit(v)

\* The deadline of context.WithTimeout passes.
Expire(t) ==
  /\ Present(t)
  /\ HasDeadline(kind[t])
  /\ ctx[t] = "live"
  /\ ctx' = [ctx EXCEPT ![t] = "expired"]
  /\ UNCHANGED <<kind, status, policy, attached, runs, workers, sched>>

(***************************************************************************)
(* A runner: acquireTaskSlot.                                              *)
(***************************************************************************)
GoTo(r, s) == step' = [step EXCEPT ![r] = s]

TakeSlot(r) ==
  /\ UNCHANGED <<table, outcome>>
  /\ Sched!TakeSlot(r)
  /\ GoTo(r, "start")

Sleep(r)  == UNCHANGED <<table, workers>> /\ Sched!Sleep(r)
WakeUp(r) == UNCHANGED <<table, workers>> /\ Sched!WakeUp(r)

\* A form of Acquire that does not watch the context while it sleeps.
RefusedNever(r) == FALSE /\ UNCHANGED vars

\* Acquire failed: finishFileTask comes next, and there is no slot to free.
Refused(r) ==
  /\ UNCHANGED table
  /\ Sched!GiveUp(r)
  /\ GoTo(r, "finish")
  /\ outcome' = [outcome EXCEPT ![r] = "ctx"]

(***************************************************************************)
(* A runner: the body.                                                     *)
(***************************************************************************)

\* The first update; a remote operation gives up if its entry is gone.  A
\* size computation connects before it, and may fail there (ConnectFails).
Start(r) ==
  /\ step[r] = "start"
  /\ GoTo(r, IF HasDeadline(kind[Owner(r)]) /\ ~Present(Owner(r))
             THEN "release" ELSE "operate")
  /\ SetStatus(Owner(r), "scanning")
  /\ UNCHANGED <<kind, policy, ctx, attached, runs, outcome, sched>>

ConnectFails(r) ==
  /\ step[r] = "start"
  /\ kind[Owner(r)] = "size"
  /\ \E o \in {"fail", "ctx"} :
       /\ o = "ctx" => ctx[Owner(r)] # "live"
       /\ outcome' = [outcome EXCEPT ![r] = o]
  /\ GoTo(r, "finish")
  /\ UNCHANGED <<table, sched>>

\* onProgress, or the update that announces the transfer.
Progress(r) ==
  /\ step[r] = "operate"
  /\ kind[Owner(r)] # "size"
  /\ SetStatus(Owner(r), "running")
  /\ UNCHANGED <<kind, policy, ctx, attached, runs, workers, sched>>

\* The operation returns.  Conflicts are reported before any work is done
\* and only under the policy "ask"; a transfer that succeeded has announced
\* itself; the context's own error needs a context that is done, but an
\* operation may also fail otherwise, or succeed, after that.
ReturnWith(r, o) ==
  LET t == Owner(r) IN
  /\ step[r] = "operate"
  /\ o = "ctx" => ctx[t] # "live"
  /\ o = "conflict" => /\ MayConflict(kind[t])
                       /\ policy[t] = "ask"
                       /\ status[t] = "scanning"
  /\ o = "done" => (kind[t] \in {"upload", "download"} => status[t] = "running")
  /\ outcome' = [outcome EXCEPT ![r] = o]
  /\ GoTo(r, "returned")
  /\ UNCHANGED <<table, sched>>

Return(r) == \E o \in Outcome \ {"none"} : ReturnWith(r, o)

\* The tests that follow the operation, in the code's order: its error, the
\* context, then its result.
Check(r) ==
  LET t == Owner(r) IN
  /\ step[r] = "returned"
  /\ IF outcome[r] \in {"fail", "ctx"}
     THEN GoTo(r, "finish") /\ UNCHANGED outcome
     ELSE IF ChecksContext(kind[t]) /\ ctx[t] # "live"
     THEN GoTo(r, "finish") /\ outcome' = [outcome EXCEPT ![r] = "ctx"]
     ELSE /\ GoTo(r, IF kind[t] = "download" THEN "finalize" ELSE "commit")
          /\ UNCHANGED outcome
  /\ UNCHANGED <<table, sched>>

\* finalizeRemoteDownloadFiles: the context is not looked at again.
Finalize(r) ==
  /\ step[r] = "finalize"
  /\ \/ GoTo(r, "commit") /\ UNCHANGED outcome
     \/ GoTo(r, "finish") /\ outcome' = [outcome EXCEPT ![r] = "fail"]
  /\ UNCHANGED <<table, sched>>

\* A form in which the error path returns without the deferred Release.
LeavingAtOnce(r) == "gone"

\* Where a runner that has published its result goes: the deferred Release
\* if it owns a slot.
Leaving(r) == IF slot[r] = "held" THEN "release" ELSE "gone"

\* The update that publishes success, or the conflicts.  Only the remote
\* operations drop their context on success.
Commit(r) ==
  LET t == Owner(r) IN
  /\ step[r] = "commit"
  /\ IF outcome[r] = "conflict"
     THEN SetStatus(t, "conflict") /\ UNCHANGED <<ctx, attached>>
     ELSE /\ SetStatus(t, "success")
          /\ IF HasDeadline(kind[t]) THEN Detach(t) ELSE UNCHANGED <<ctx, attached>>
  /\ GoTo(r, Leaving(r))
  /\ UNCHANGED <<kind, policy, runs, outcome, sched>>

\* finishFileTask: context.Canceled is a cancellation; a deadline that has
\* passed is a failure like any other error.
Finish(r) ==
  LET t == Owner(r) IN
  /\ step[r] = "finish"
  /\ SetStatus(t, IF outcome[r] = "ctx" /\ ctx[t] = "canceled"
                  THEN "canceled" ELSE "failed")
  /\ Detach(t)
  /\ GoTo(r, Leaving(r))
  /\ UNCHANGED <<kind, policy, runs, outcome, sched>>

Release(r) ==
  /\ step[r] = "release"
  /\ UNCHANGED <<table, outcome>>
  /\ GoTo(r, "gone")
  /\ Sched!Release(r)

RunnerStep(r) ==
  \/ TakeSlot(r) \/ Sleep(r) \/ WakeUp(r) \/ Refused(r)
  \/ Start(r) \/ ConnectFails(r) \/ Progress(r) \/ Return(r)
  \/ Check(r) \/ Finalize(r) \/ Commit(r) \/ Finish(r) \/ Release(r)

Next ==
  \/ \E t \in Tasks :
       \/ Create(t) \/ CancelFileTask(t) \/ Resolve(t) \/ Expire(t)
       \/ \E old \in Tasks : Retry(old, t)
  \/ ClearFileTasks
  \/ \E v \in LimitRequests : SetLimit(v)
  \/ \E r \in Runners : RunnerStep(r)

(***************************************************************************)
(* Goroutines that can run do run, and an operation whose context is done  *)
(* returns (the SSH layer closes the session or kills the process).  That  *)
(* is an assumption about the dialling too: it holds while host-key        *)
(* questions get an answer and sftp.NewClient returns, and SshDial shows   *)
(* how it fails otherwise.  An operation whose context is live may take    *)
(* for ever, so a slot may never come back; apart from that question the   *)
(* user owes the program nothing.                                          *)
(***************************************************************************)
Fairness ==
  \A r \in Runners :
    /\ WF_vars(TakeSlot(r) \/ Sleep(r))
    /\ WF_vars(WakeUp(r))
    /\ SF_vars(Refused(r))
    /\ WF_vars(Start(r))
    /\ WF_vars(Return(r) /\ ctx[Owner(r)] # "live")
    /\ WF_vars(Check(r) \/ Finalize(r) \/ Commit(r) \/ Finish(r) \/ Release(r))

Spec == Init /\ [][Next]_vars /\ Fairness

-----------------------------------------------------------------------------
RunnersOf(t) == {r \in Runners : Owner(r) = t}
Worker(r) == step[r] \in Working

\* The steps during which a runner that needs a slot owns one.
Holding == {"start", "operate", "returned", "finalize", "commit", "finish", "release"}

TypeOK ==
  /\ kind \in [Tasks -> AllKinds]
  /\ status \in [Tasks -> Life!Status]
  /\ policy \in [Tasks -> {"none", "ask", "force"}]
  /\ ctx \in [Tasks -> {"live", "canceled", "expired"}]
  /\ attached \in [Tasks -> BOOLEAN]
  /\ runs \in [Tasks -> 0..MaxRuns]
  /\ step \in [Runners -> Step]
  /\ outcome \in [Runners -> Outcome]
  /\ Sched!TypeOK

\* A task shows as queued, scanning or running exactly while one goroutine
\* works for it, and never two.  So no task is stuck in a busy status that
\* nobody will ever end (it could be neither cleared nor retried), no late
\* goroutine overwrites a task that has ended or been cleared, and an
\* answered conflict does not put two goroutines on the same files.
BusyIffOneRunner ==
  \A t \in Tasks :
    /\ (status[t] \in Busy) <=> (\E r \in RunnersOf(t) : Worker(r))
    /\ \A r, q \in RunnersOf(t) : Worker(r) /\ Worker(q) => r = q

\* A conflict is asked about at most once in the life of a task, and a task
\* that shows one still has the context its second runner will need: the
\* ResolveRemoteFileTask test `task.ctx == nil || task.cancel == nil` never
\* fires on a conflict.
ConflictIsAnswerable ==
  \A t \in Tasks :
    /\ status[t] = "conflict" => attached[t] /\ policy[t] = "ask" /\ runs[t] = 1
    /\ runs[t] <= 2

\* Every slot belongs to a runner that will release it: on no path - error,
\* refusal, conflict, cancellation, clearing - does a runner end with its
\* slot, or release one it does not own.  In particular a task that waits
\* for the user's answer does not occupy a slot.
NoSlotLeak ==
  active = Cardinality({r \in Runners : step[r] \in Holding /\ slot[r] = "held"})
  /\ \A r \in Runners : slot[r] = "held" => step[r] \in Holding

\* The table and the goroutines implement the life cycle the windows rely
\* on: in particular what has ended stays as it ended.
ImplementsLifecycle == Life!Spec

\* A task whose context is done - cancelled by the user or past its
\* deadline - does not stay busy, even if every slot is taken for ever.
DoneContextSettles ==
  \A t \in Tasks :
    (status[t] \in Busy /\ ctx[t] # "live") ~> (status[t] \notin Busy)
=============================================================================
