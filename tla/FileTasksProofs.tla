-------------------------- MODULE FileTasksProofs --------------------------
(***************************************************************************)
(* Proofs about FileTasks for every set of tasks, every set of kinds and   *)
(* every bound on the runners.                                             *)
(*                                                                         *)
(* BusyIffOneRunner and ConflictIsAnswerable are not inductive: a status   *)
(* is written by a runner that does not look at it, so one has to know     *)
(* which status goes with each step of the last runner of the task, that   *)
(* the earlier ones are past their updates, and that an answered policy    *)
(* is never "ask".  TaskInv says that of one task, in terms of that task   *)
(* and its runners only; a step touches one task, so the others keep it by *)
(* a frame lemma.  The scheduler's part of the state is not looked into    *)
(* at all: the composition takes the scheduler's own steps, and the        *)
(* invariant proved in TaskSchedulerProofs is reused.                      *)
(***************************************************************************)
EXTENDS FileTasks, TLAPS

SP == INSTANCE TaskSchedulerProofs
        WITH Callers <- Runners, pc <- slot, ctxDone <- CtxDone(ctx)

\* The members of Working.
AtWork == {"acquire", "start", "operate", "returned", "finalize", "commit", "finish"}

\* Runner n of a task has been launched iff the task has had n runners.
Launched(t) ==
  /\ runs[t] = 0 <=> status[t] = "none"
  /\ \A n \in 1..MaxRuns : step[<<t, n>>] = "off" <=> n > runs[t]

\* Only the last runner of a task works; the task is busy exactly meanwhile.
LastWorks(t) ==
  /\ \A n \in 1..MaxRuns :
       step[<<t, n>>] \in AtWork => n = runs[t] /\ status[t] \in {"queued", "scanning", "running"}
  /\ status[t] \in {"queued", "scanning", "running"} 
       => runs[t] \in 1..MaxRuns /\ step[<<t, runs[t]>>] \in AtWork

\* What the status is while a runner is at a given step.
StatusAtStep(t) ==
  \A n \in 1..MaxRuns :
    /\ step[<<t, n>>] \in {"acquire", "start"} => status[t] = "queued"
    /\ step[<<t, n>>] \in {"operate", "returned", "finalize", "commit"}
         => status[t] \in {"scanning", "running"}
    /\ step[<<t, n>>] \in {"returned", "finalize", "commit"} /\ outcome[<<t, n>>] = "conflict"
         => status[t] = "scanning" /\ policy[t] = "ask"

\* Why a conflict is asked about once: the answer replaces "ask".
Answers(t) ==
  /\ status[t] \in {"queued", "scanning", "running", "conflict"} => attached[t]
  /\ status[t] = "conflict" => policy[t] = "ask"
  /\ policy[t] = "ask" => runs[t] <= 1
  /\ runs[t] <= 2

\* Where a runner stands in its body and in the scheduler.
SlotAtStep(t) ==
  \A n \in 1..MaxRuns :
    /\ slot[<<t, n>>] \in {"trying", "waiting"} <=> step[<<t, n>>] = "acquire"
    /\ slot[<<t, n>>] = "held" => step[<<t, n>>] \in Holding
    /\ step[<<t, n>>] = "release" => slot[<<t, n>>] = "held"
    /\ step[<<t, n>>] = "off" => slot[<<t, n>>] = "idle"

TaskInv(t) ==
  Launched(t) /\ LastWorks(t) /\ StatusAtStep(t) /\ Answers(t) /\ SlotAtStep(t)

\* The types of the table and of the runners; those of the scheduler, and
\* all that is known of it, are the invariant of TaskSchedulerProofs.
TableOK ==
  /\ kind \in [Tasks -> AllKinds]
  /\ status \in [Tasks -> Life!Status]
  /\ policy \in [Tasks -> {"none", "ask", "force"}]
  /\ ctx \in [Tasks -> {"live", "canceled", "expired"}]
  /\ attached \in [Tasks -> BOOLEAN]
  /\ runs \in [Tasks -> 0..MaxRuns]
  /\ step \in [Runners -> Step]
  /\ outcome \in [Runners -> Outcome]

SlotOK == slot \in [Runners -> Sched!PC]

TasksOK == TableOK /\ \A t \in Tasks : TaskInv(t)

IInv == TasksOK /\ SlotOK /\ SP!IInv

\* A runner is a task and the number of one of its runs.
LEMMA RunnerIs ==
  ASSUME NEW r \in Runners
  PROVE  \E t \in Tasks, n \in 1..MaxRuns : r = <<t, n>>
  BY DEF Runners

\* ... and the other way round.
LEMMA IsRunner ==
  ASSUME NEW t \in Tasks, NEW n \in 1..MaxRuns
  PROVE  <<t, n>> \in Runners /\ Owner(<<t, n>>) = t
  BY DEF Runners, Owner

\* What a step does not touch of a task keeps the task's invariant.
LEMMA Frame ==
  ASSUME NEW t \in Tasks, TaskInv(t),
         status'[t] = status[t], policy'[t] = policy[t],
         attached'[t] = attached[t], runs'[t] = runs[t],
         \A n \in 1..MaxRuns : /\ step'[<<t, n>>] = step[<<t, n>>]
                               /\ outcome'[<<t, n>>] = outcome[<<t, n>>]
                               /\ slot'[<<t, n>>] = slot[<<t, n>>]
  PROVE  TaskInv(t)'
<1>1. Launched(t)'
  BY DEF TaskInv, Launched
<1>2. status[t] \in {"queued", "scanning", "running"} =>
        runs[t] \in 1..MaxRuns /\ step'[<<t, runs[t]>>] = step[<<t, runs[t]>>]
  BY DEF TaskInv, LastWorks
<1>3. LastWorks(t)'
  BY <1>2 DEF TaskInv, LastWorks
<1>4. StatusAtStep(t)'
  BY DEF TaskInv, StatusAtStep
<1>5. Answers(t)'
  BY DEF TaskInv, Answers
<1>6. SlotAtStep(t)'
  BY DEF TaskInv, SlotAtStep
<1> QED
  BY <1>1, <1>3, <1>4, <1>5, <1>6 DEF TaskInv

\* A step that concerns one task keeps the invariant of all the others.
LEMMA OthersFrame ==
  ASSUME TasksOK, NEW t \in Tasks,
         \A u \in Tasks : u # t =>
           /\ status'[u] = status[u] /\ policy'[u] = policy[u]
           /\ attached'[u] = attached[u] /\ runs'[u] = runs[u],
         \A q \in Runners : Owner(q) # t =>
           /\ step'[q] = step[q] /\ outcome'[q] = outcome[q] /\ slot'[q] = slot[q]
  PROVE  \A u \in Tasks : u # t => TaskInv(u)'
<1> SUFFICES ASSUME NEW u \in Tasks, u # t PROVE TaskInv(u)'
  OBVIOUS
<1>1. \A n \in 1..MaxRuns : <<u, n>> \in Runners /\ Owner(<<u, n>>) # t
  BY IsRunner
<1> QED
  BY <1>1, Frame DEF TasksOK

-----------------------------------------------------------------------------
(***************************************************************************)
(* The scheduler inside the composition.  Every step of FileTasks is a     *)
(* step of TaskScheduler or leaves its variables alone, so all that was    *)
(* proved of the scheduler holds here.                                     *)
(***************************************************************************)
\* The scheduler's invariant survives each of the scheduler's steps.
LEMMA SchedIInv == SP!IInv /\ [SP!Next]_(SP!vars) => SP!IInv'
  BY SP!StepIInv, LimitRequestsAssumption

\* The two instances of TaskScheduler are one.
LEMMA SchedActions ==
  /\ Sched!TypeOK <=> SP!TypeOK
  /\ SP!TypeOK => SlotOK
  /\ \A r \in Runners :
       /\ Sched!Call(r) => SP!Call(r)
       /\ Sched!TakeSlot(r) => SP!TakeSlot(r)
       /\ Sched!Sleep(r) => SP!Sleep(r)
       /\ Sched!WakeUp(r) => SP!WakeUp(r)
       /\ Sched!GiveUp(r) => SP!GiveUp(r)
       /\ Sched!Release(r) => SP!Release(r)
  /\ \A v \in LimitRequests : Sched!SetLimit(v) => SP!SetLimit(v)
<1>1. Sched!TypeOK <=> SP!TypeOK
  BY DEF Sched!TypeOK, SP!TypeOK, Sched!Sleepers, SP!Sleepers, Sched!MinLimit,
         SP!MinLimit, Sched!MaxLimit, SP!MaxLimit, Sched!PC, SP!PC
<1>2. SP!TypeOK => SlotOK
  BY DEF SP!TypeOK, SlotOK, Sched!PC, SP!PC
<1>3. ASSUME NEW r \in Runners
      PROVE  /\ Sched!Call(r) => SP!Call(r)
             /\ Sched!TakeSlot(r) => SP!TakeSlot(r)
             /\ Sched!Sleep(r) => SP!Sleep(r)
  BY DEF Sched!Call, SP!Call, Sched!TakeSlot, SP!TakeSlot, Sched!Admit, SP!Admit,
         Sched!Sleep, SP!Sleep
<1>4. ASSUME NEW r \in Runners
      PROVE  /\ Sched!WakeUp(r) => SP!WakeUp(r)
             /\ Sched!GiveUp(r) => SP!GiveUp(r)
             /\ Sched!Release(r) => SP!Release(r)
  BY DEF Sched!WakeUp, SP!WakeUp, Sched!GiveUp, SP!GiveUp, Sched!Release, SP!Release,
         Sched!FreeSlot, SP!FreeSlot, Sched!Broadcast, SP!Broadcast,
         Sched!Sleepers, SP!Sleepers
<1>5. ASSUME NEW v \in LimitRequests
      PROVE  Sched!SetLimit(v) => SP!SetLimit(v)
  BY DEF Sched!SetLimit, SP!SetLimit, Sched!Resize, SP!Resize, Sched!clampTaskLimit,
         SP!clampTaskLimit, Sched!MinLimit, SP!MinLimit, Sched!MaxLimit, SP!MaxLimit,
         Sched!Broadcast, SP!Broadcast, Sched!Sleepers, SP!Sleepers
<1> QED
  BY <1>1, <1>2, <1>3, <1>4, <1>5

\* A step that ends some contexts, or none, and leaves the scheduler alone.
LEMMA OnlyContexts ==
  ASSUME UNCHANGED sched,
         \A t \in Tasks : ctx[t] # "live" => ctx'[t] # "live"
  PROVE  SP!Next
<1> DEFINE cs == CtxDone(ctx')
<1>1. \A r \in Runners : Owner(r) \in Tasks
  BY DEF Runners, Owner
<1>2. cs \in SUBSET Runners /\ CtxDone(ctx)' = CtxDone(ctx) \cup cs
  BY <1>1 DEF CtxDone
<1>3. SP!Cancel(cs)
  BY <1>2 DEF SP!Cancel, sched
<1> QED
  BY <1>2, <1>3 DEF SP!Next

\* cancel() does not bring a context back to life.
LEMMA DetachEnds ==
  ASSUME TableOK, NEW t \in Tasks, Detach(t)
  PROVE  \A u \in Tasks : ctx[u] # "live" => ctx'[u] # "live"
  BY DEF TableOK, Detach, Canceled

\* What finishFileTask does to the context of its task, and to no other.
LEMMA DetachTypes ==
  ASSUME TableOK, NEW t \in Tasks, Detach(t)
  PROVE  /\ ctx' \in [Tasks -> {"live", "canceled", "expired"}]
         /\ attached' \in [Tasks -> BOOLEAN]
         /\ \A u \in Tasks : u # t => attached'[u] = attached[u]
<1>1. Canceled(ctx[t]) \in {"live", "canceled", "expired"}
  BY DEF TableOK, Canceled
<1> QED
  BY <1>1 DEF TableOK, Detach

\* Every step is a step of the scheduler, or none of its business.
LEMMA StepSched ==
  ASSUME TableOK, Next
  PROVE  [SP!Next]_(SP!vars)
<1> USE DEF SP!Next
<1>1. ASSUME NEW t \in Tasks, NEW k, NEW p, CreateWith(t, k, p) PROVE SP!Next \/ UNCHANGED SP!vars
  <2>1. <<t, 1>> \in Runners
    BY IsRunner, MaxRunsAssumption
  <2> QED
    BY <1>1, <2>1, SchedActions DEF CreateWith, Launch, SP!vars, sched, CtxDone
<1>2. ASSUME NEW t \in Tasks, Create(t) \/ \E old \in Tasks : Retry(old, t)
      PROVE  SP!Next \/ UNCHANGED SP!vars
  BY <1>1, <1>2 DEF Create, Retry
<1>3. ASSUME NEW t \in Tasks, CancelFileTask(t) PROVE SP!Next
  <2>1. \A u \in Tasks : ctx[u] # "live" => ctx'[u] # "live"
    BY <1>3, DetachEnds DEF CancelFileTask, TableOK, Canceled
  <2> QED
    BY <1>3, <2>1, OnlyContexts DEF CancelFileTask
<1>4. ASSUME NEW t \in Tasks, Resolve(t) PROVE SP!Next \/ UNCHANGED SP!vars
  <2>1. <<t, runs[t] + 1>> \in Runners
    BY <1>4, IsRunner, MaxRunsAssumption DEF Resolve, ResolveWith, TableOK
  <2> QED
    BY <1>4, <2>1, SchedActions
       DEF Resolve, ResolveWith, Launch, SP!vars, sched, CtxDone
<1>5. ASSUME NEW t \in Tasks, Expire(t) PROVE SP!Next
  <2>1. \A u \in Tasks : ctx[u] # "live" => ctx'[u] # "live"
    BY <1>5 DEF Expire, TableOK
  <2> QED
    BY <1>5, <2>1, OnlyContexts DEF Expire
<1>6. CASE ClearFileTasks
  BY <1>6 DEF ClearFileTasks, SP!vars, sched, CtxDone
<1>7. ASSUME NEW v \in LimitRequests, SetLimit(v) PROVE SP!Next
  BY <1>7, SchedActions DEF SetLimit
<1>8. ASSUME NEW r \in Runners,
             TakeSlot(r) \/ Sleep(r) \/ WakeUp(r) \/ Refused(r) \/ Release(r)
      PROVE  SP!Next
  BY <1>8, SchedActions DEF TakeSlot, Sleep, WakeUp, Refused, Release
<1>9. ASSUME NEW r \in Runners,
             Start(r) \/ ConnectFails(r) \/ Progress(r) \/ Return(r) \/ Check(r) \/ Finalize(r)
      PROVE  UNCHANGED SP!vars
  <2>1. UNCHANGED sched /\ UNCHANGED ctx
    BY <1>9
       DEF Start, ConnectFails, Progress, Return, ReturnWith, Check, Finalize,
           table
  <2> QED
    BY <2>1 DEF SP!vars, sched, CtxDone
<1>10. ASSUME NEW r \in Runners, Commit(r) \/ Finish(r) PROVE SP!Next
  <2>1. Owner(r) \in Tasks
    BY DEF Runners, Owner
  <2>2. \A u \in Tasks : ctx[u] # "live" => ctx'[u] # "live"
    BY <1>10, <2>1, DetachEnds DEF Commit, Finish
  <2> QED
    BY <1>10, <2>2, OnlyContexts DEF Commit, Finish
<1> QED
  BY <1>2, <1>3, <1>4, <1>5, <1>6, <1>7, <1>8, <1>9, <1>10 DEF Next, RunnerStep
-----------------------------------------------------------------------------
(***************************************************************************)
(* The table and the runners: one lemma for each action.  Step <1>2 says   *)
(* what the invariant knows of the task and what the action does to it.    *)
(***************************************************************************)

\* Acquire returns nil: the task is still queued.
LEMMA TakeSlotInv ==
  ASSUME TasksOK, SlotOK, NEW t \in Tasks, NEW n \in 1..MaxRuns, TakeSlot(<<t, n>>)
  PROVE  TasksOK'
<1> DEFINE r == <<t, n>>
<1>1. r \in Runners /\ Owner(r) = t /\ TableOK /\ TaskInv(t)
  BY IsRunner DEF TasksOK
<1>2. /\ status[t] = "queued" /\ n = runs[t]
      /\ step' = [step EXCEPT ![r] = "start"] /\ slot' = [slot EXCEPT ![r] = "held"]
      /\ UNCHANGED <<table, outcome>>
  BY <1>1
     DEF TakeSlot, Sched!TakeSlot, Sched!Admit, GoTo, TaskInv, LastWorks,
         StatusAtStep, SlotAtStep, AtWork
<1>3. TableOK'
  BY <1>1, <1>2
     DEF TableOK, table, Step, Outcome, Life!Status, Life!Busy, Life!Terminal
<1>4. TaskInv(t)'
  BY <1>1, <1>2
     DEF TableOK, SlotOK, table, Outcome, TaskInv, Launched, LastWorks,
         StatusAtStep, Answers, SlotAtStep, AtWork, Holding
<1>5. \A u \in Tasks : u # t => TaskInv(u)'
  BY <1>1, <1>2, OthersFrame DEF TableOK, SlotOK, table
<1> QED
  BY <1>3, <1>4, <1>5 DEF TasksOK

\* Waiting for a slot shows nowhere in the table.
LEMMA SleepInv ==
  ASSUME TasksOK, SlotOK, NEW t \in Tasks, NEW n \in 1..MaxRuns, Sleep(<<t, n>>) \/ WakeUp(<<t, n>>)
  PROVE  TasksOK'
<1> DEFINE r == <<t, n>>
<1>1. r \in Runners /\ Owner(r) = t /\ TableOK /\ TaskInv(t)
  BY IsRunner DEF TasksOK
<1>2. /\ slot[r] \in {"trying", "waiting"}
      /\ \E p \in {"trying", "waiting"} : slot' = [slot EXCEPT ![r] = p]
      /\ UNCHANGED <<table, workers>>
  BY DEF Sleep, WakeUp, Sched!Sleep, Sched!WakeUp
<1>3. TableOK'
  BY <1>1, <1>2
     DEF TableOK, table, workers, Step, Outcome, Life!Status, Life!Busy,
         Life!Terminal
<1>4. TaskInv(t)'
  BY <1>1, <1>2
     DEF TableOK, SlotOK, table, workers, Outcome, TaskInv, Launched,
         LastWorks, StatusAtStep, Answers, SlotAtStep, AtWork, Holding
<1>5. \A u \in Tasks : u # t => TaskInv(u)'
  BY <1>1, <1>2, OthersFrame DEF TableOK, SlotOK, table, workers
<1> QED
  BY <1>3, <1>4, <1>5 DEF TasksOK

\* Acquire returns an error: the runner goes to finishFileTask.
LEMMA RefusedInv ==
  ASSUME TasksOK, SlotOK, NEW t \in Tasks, NEW n \in 1..MaxRuns, Refused(<<t, n>>)
  PROVE  TasksOK'
<1> DEFINE r == <<t, n>>
<1>1. r \in Runners /\ Owner(r) = t /\ TableOK /\ TaskInv(t)
  BY IsRunner DEF TasksOK
<1>2. /\ status[t] = "queued" /\ n = runs[t]
      /\ step' = [step EXCEPT ![r] = "finish"] /\ slot' = [slot EXCEPT ![r] = "refused"]
      /\ outcome' = [outcome EXCEPT ![r] = "ctx"]
      /\ UNCHANGED table
  BY <1>1
     DEF Refused, Sched!GiveUp, GoTo, TaskInv, LastWorks, StatusAtStep,
         SlotAtStep, AtWork
<1>3. TableOK'
  BY <1>1, <1>2
     DEF TableOK, table, Step, Outcome, Life!Status, Life!Busy, Life!Terminal
<1>4. TaskInv(t)'
  BY <1>1, <1>2
     DEF TableOK, SlotOK, table, Outcome, TaskInv, Launched, LastWorks,
         StatusAtStep, Answers, SlotAtStep, AtWork, Holding
<1>5. \A u \in Tasks : u # t => TaskInv(u)'
  BY <1>1, <1>2, OthersFrame DEF TableOK, SlotOK, table
<1> QED
  BY <1>3, <1>4, <1>5 DEF TasksOK

\* The first update finds the entry present and queued.
LEMMA StartInv ==
  ASSUME TasksOK, SlotOK, NEW t \in Tasks, NEW n \in 1..MaxRuns, Start(<<t, n>>)
  PROVE  TasksOK'
<1> DEFINE r == <<t, n>>
<1>1. r \in Runners /\ Owner(r) = t /\ TableOK /\ TaskInv(t)
  BY IsRunner DEF TasksOK
<1>2. /\ step[r] = "start" /\ status[t] = "queued" /\ n = runs[t]
      /\ step' = [step EXCEPT ![r] = "operate"]
      /\ status' = [status EXCEPT ![t] = "scanning"]
      /\ UNCHANGED <<kind, policy, ctx, attached, runs, outcome, slot>>
  BY <1>1
     DEF Start, SetStatus, Present, GoTo, sched, TaskInv, LastWorks,
         StatusAtStep, AtWork
<1>3. TableOK'
  BY <1>1, <1>2
     DEF TableOK, Start, Step, Outcome, Life!Status, Life!Busy, Life!Terminal
<1>4. TaskInv(t)'
  BY <1>1, <1>2
     DEF TableOK, SlotOK, Start, Outcome, TaskInv, Launched, LastWorks,
         StatusAtStep, Answers, SlotAtStep, AtWork, Holding
<1>5. \A u \in Tasks : u # t => TaskInv(u)'
  BY <1>1, <1>2, OthersFrame DEF TableOK, SlotOK, Start
<1> QED
  BY <1>3, <1>4, <1>5 DEF TasksOK

\* A size computation that cannot connect goes to finishFileTask.
LEMMA ConnectFailsInv ==
  ASSUME TasksOK, SlotOK, NEW t \in Tasks, NEW n \in 1..MaxRuns, ConnectFails(<<t, n>>)
  PROVE  TasksOK'
<1> DEFINE r == <<t, n>>
<1>1. r \in Runners /\ Owner(r) = t /\ TableOK /\ TaskInv(t)
  BY IsRunner DEF TasksOK
<1>2. /\ step[r] = "start" /\ status[t] = "queued" /\ n = runs[t]
      /\ step' = [step EXCEPT ![r] = "finish"]
      /\ \E o \in {"fail", "ctx"} : outcome' = [outcome EXCEPT ![r] = o]
      /\ UNCHANGED <<table, slot>>
  BY <1>1
     DEF ConnectFails, GoTo, sched, TaskInv, LastWorks, StatusAtStep, AtWork
<1>3. TableOK'
  BY <1>1, <1>2
     DEF TableOK, table, Step, Outcome, Life!Status, Life!Busy, Life!Terminal
<1>4. TaskInv(t)'
  BY <1>1, <1>2
     DEF TableOK, SlotOK, table, Outcome, TaskInv, Launched, LastWorks,
         StatusAtStep, Answers, SlotAtStep, AtWork, Holding
<1>5. \A u \in Tasks : u # t => TaskInv(u)'
  BY <1>1, <1>2, OthersFrame DEF TableOK, SlotOK, table
<1> QED
  BY <1>3, <1>4, <1>5 DEF TasksOK

\* Progress is only reported by the task's one working runner.
LEMMA ProgressInv ==
  ASSUME TasksOK, SlotOK, NEW t \in Tasks, NEW n \in 1..MaxRuns, Progress(<<t, n>>)
  PROVE  TasksOK'
<1> DEFINE r == <<t, n>>
<1>1. r \in Runners /\ Owner(r) = t /\ TableOK /\ TaskInv(t)
  BY IsRunner DEF TasksOK
<1>2. /\ step[r] = "operate" /\ status[t] \in {"scanning", "running"} /\ n = runs[t]
      /\ status' = [status EXCEPT ![t] = "running"]
      /\ UNCHANGED <<kind, policy, ctx, attached, runs, step, outcome, slot>>
  BY <1>1
     DEF Progress, SetStatus, Present, sched, workers, TaskInv, LastWorks,
         StatusAtStep, AtWork
<1>3. TableOK'
  BY <1>1, <1>2
     DEF TableOK, Progress, Step, Outcome, Life!Status, Life!Busy,
         Life!Terminal
<1>4. TaskInv(t)'
  BY <1>1, <1>2
     DEF TableOK, SlotOK, Progress, Outcome, TaskInv, Launched, LastWorks,
         StatusAtStep, Answers, SlotAtStep, AtWork, Holding
<1>5. \A u \in Tasks : u # t => TaskInv(u)'
  BY <1>1, <1>2, OthersFrame DEF TableOK, SlotOK, Progress
<1> QED
  BY <1>3, <1>4, <1>5 DEF TasksOK

\* The operation returns; a conflict needs the policy "ask".
LEMMA ReturnInv ==
  ASSUME TasksOK, SlotOK, NEW t \in Tasks, NEW n \in 1..MaxRuns, Return(<<t, n>>)
  PROVE  TasksOK'
<1> DEFINE r == <<t, n>>
<1>1. r \in Runners /\ Owner(r) = t /\ TableOK /\ TaskInv(t)
  BY IsRunner DEF TasksOK
<1>2. /\ step[r] = "operate" /\ status[t] \in {"scanning", "running"} /\ n = runs[t]
      /\ step' = [step EXCEPT ![r] = "returned"]
      /\ \E o \in Outcome \ {"none"} :
           /\ outcome' = [outcome EXCEPT ![r] = o]
           /\ o = "conflict" => status[t] = "scanning" /\ policy[t] = "ask"
      /\ UNCHANGED <<table, slot>>
  BY <1>1
     DEF Return, ReturnWith, GoTo, sched, TaskInv, LastWorks, StatusAtStep,
         AtWork
<1>3. TableOK'
  BY <1>1, <1>2
     DEF TableOK, table, Step, Outcome, Life!Status, Life!Busy, Life!Terminal
<1>4. TaskInv(t)'
  BY <1>1, <1>2
     DEF TableOK, SlotOK, table, Outcome, TaskInv, Launched, LastWorks,
         StatusAtStep, Answers, SlotAtStep, AtWork, Holding
<1>5. \A u \in Tasks : u # t => TaskInv(u)'
  BY <1>1, <1>2, OthersFrame DEF TableOK, SlotOK, table
<1> QED
  BY <1>3, <1>4, <1>5 DEF TasksOK

\* The tests after the operation move the runner only.
LEMMA CheckInv ==
  ASSUME TasksOK, SlotOK, NEW t \in Tasks, NEW n \in 1..MaxRuns, Check(<<t, n>>) \/ Finalize(<<t, n>>)
  PROVE  TasksOK'
<1> DEFINE r == <<t, n>>
<1>1. r \in Runners /\ Owner(r) = t /\ TableOK /\ TaskInv(t)
  BY IsRunner DEF TasksOK
<1>2. /\ step[r] \in {"returned", "finalize"} /\ n = runs[t]
      /\ status[t] \in {"scanning", "running"}
      /\ \E s \in {"finish", "finalize", "commit"} : step' = [step EXCEPT ![r] = s]
      /\ \E o \in {outcome[r], "ctx", "fail"} : outcome' = [outcome EXCEPT ![r] = o]
      /\ UNCHANGED <<table, slot>>
  BY <1>1
     DEF Check, Finalize, GoTo, sched, TableOK, TaskInv, LastWorks,
         StatusAtStep, AtWork
<1>3. TableOK'
  BY <1>1, <1>2
     DEF TableOK, table, Step, Outcome, Life!Status, Life!Busy, Life!Terminal
<1>4. TaskInv(t)'
  BY <1>1, <1>2
     DEF TableOK, SlotOK, table, Outcome, TaskInv, Launched, LastWorks,
         StatusAtStep, Answers, SlotAtStep, AtWork, Holding
<1>5. \A u \in Tasks : u # t => TaskInv(u)'
  BY <1>1, <1>2, OthersFrame DEF TableOK, SlotOK, table
<1> QED
  BY <1>3, <1>4, <1>5 DEF TasksOK

\* The deferred Release happens after the last update.
LEMMA ReleaseInv ==
  ASSUME TasksOK, SlotOK, NEW t \in Tasks, NEW n \in 1..MaxRuns, Release(<<t, n>>)
  PROVE  TasksOK'
<1> DEFINE r == <<t, n>>
<1>1. r \in Runners /\ Owner(r) = t /\ TableOK /\ TaskInv(t)
  BY IsRunner DEF TasksOK
<1>2. /\ step[r] = "release"
      /\ step' = [step EXCEPT ![r] = "gone"] /\ slot' = [slot EXCEPT ![r] = "idle"]
      /\ UNCHANGED <<table, outcome>>
  BY DEF Release, Sched!Release, Sched!FreeSlot, GoTo
<1>3. TableOK'
  BY <1>1, <1>2
     DEF TableOK, table, Step, Outcome, Life!Status, Life!Busy, Life!Terminal
<1>4. TaskInv(t)'
  BY <1>1, <1>2
     DEF TableOK, SlotOK, table, Outcome, TaskInv, Launched, LastWorks,
         StatusAtStep, Answers, SlotAtStep, AtWork, Holding
<1>5. \A u \in Tasks : u # t => TaskInv(u)'
  BY <1>1, <1>2, OthersFrame DEF TableOK, SlotOK, table
<1> QED
  BY <1>3, <1>4, <1>5 DEF TasksOK

\* Success or conflict is published by the last runner, which then leaves.
LEMMA CommitInv ==
  ASSUME TasksOK, SlotOK, NEW t \in Tasks, NEW n \in 1..MaxRuns, Commit(<<t, n>>)
  PROVE  TasksOK'
<1> DEFINE r == <<t, n>>
<1>1. r \in Runners /\ Owner(r) = t /\ TableOK /\ TaskInv(t)
  BY IsRunner DEF TasksOK
<1>2. /\ step[r] = "commit" /\ n = runs[t] /\ status[t] \in {"scanning", "running"}
      /\ \E s \in {"release", "gone"} :
           (s = "release" <=> slot[r] = "held") /\ step' = [step EXCEPT ![r] = s]
      /\ \/ /\ status' = [status EXCEPT ![t] = "conflict"] /\ policy[t] = "ask"
            /\ UNCHANGED attached
         \/ status' = [status EXCEPT ![t] = "success"]
      /\ UNCHANGED <<kind, policy, runs, outcome, slot>>
  BY <1>1
     DEF Commit, Detach, SetStatus, Present, GoTo, Leaving, sched, TaskInv,
         LastWorks, StatusAtStep, AtWork
<1>6. /\ ctx' \in [Tasks -> {"live", "canceled", "expired"}]
      /\ attached' \in [Tasks -> BOOLEAN]
      /\ \A u \in Tasks : u # t => attached'[u] = attached[u]
  BY <1>1, DetachTypes DEF Commit, TableOK
<1>3. TableOK'
  BY <1>1, <1>2, <1>6
     DEF TableOK, Step, Outcome, Life!Status, Life!Busy, Life!Terminal
<1>4. TaskInv(t)'
  BY <1>1, <1>2, <1>6
     DEF TableOK, SlotOK, Outcome, TaskInv, Launched, LastWorks, StatusAtStep,
         Answers, SlotAtStep, AtWork, Holding
<1>5. \A u \in Tasks : u # t => TaskInv(u)'
  BY <1>1, <1>2, <1>6, OthersFrame DEF TableOK, SlotOK
<1> QED
  BY <1>3, <1>4, <1>5 DEF TasksOK

\* finishFileTask ends the task with its last runner.
LEMMA FinishInv ==
  ASSUME TasksOK, SlotOK, NEW t \in Tasks, NEW n \in 1..MaxRuns, Finish(<<t, n>>)
  PROVE  TasksOK'
<1> DEFINE r == <<t, n>>
<1>1. r \in Runners /\ Owner(r) = t /\ TableOK /\ TaskInv(t)
  BY IsRunner DEF TasksOK
<1>2. /\ step[r] = "finish" /\ n = runs[t] /\ status[t] \in {"queued", "scanning", "running"}
      /\ \E s \in {"release", "gone"} :
           (s = "release" <=> slot[r] = "held") /\ step' = [step EXCEPT ![r] = s]
      /\ \E s \in {"canceled", "failed"} : status' = [status EXCEPT ![t] = s]
      /\ UNCHANGED <<kind, policy, runs, outcome, slot>>
  BY <1>1
     DEF Finish, Detach, SetStatus, Present, GoTo, Leaving, sched, TaskInv,
         LastWorks, AtWork
<1>6. /\ ctx' \in [Tasks -> {"live", "canceled", "expired"}]
      /\ attached' \in [Tasks -> BOOLEAN]
      /\ \A u \in Tasks : u # t => attached'[u] = attached[u]
  BY <1>1, DetachTypes DEF Finish, TableOK
<1>3. TableOK'
  <2>1. status' \in [Tasks -> Life!Status]
    BY <1>1, <1>2 DEF TableOK, Life!Status, Life!Terminal
  <2>2. step' \in [Runners -> Step]
    BY <1>1, <1>2 DEF TableOK, Step
  <2> QED
    BY <1>1, <1>2, <1>6, <2>1, <2>2 DEF TableOK
<1>4. TaskInv(t)'
  BY <1>1, <1>2, <1>6
     DEF TableOK, SlotOK, Outcome, TaskInv, Launched, LastWorks, StatusAtStep,
         Answers, SlotAtStep, AtWork, Holding
<1>5. \A u \in Tasks : u # t => TaskInv(u)'
  BY <1>1, <1>2, <1>6, OthersFrame DEF TableOK, SlotOK
<1> QED
  BY <1>3, <1>4, <1>5 DEF TasksOK

\* A new task comes with its first runner.
LEMMA CreateInv ==
  ASSUME TasksOK, SlotOK, NEW t \in Tasks, NEW k \in AllKinds,
         NEW p \in {"none", "ask", "force"}, CreateWith(t, k, p)
  PROVE  TasksOK'
<1> DEFINE r == <<t, 1>>
<1>1. r \in Runners /\ Owner(r) = t /\ 1 \in 1..MaxRuns /\ TableOK /\ TaskInv(t)
  BY IsRunner, MaxRunsAssumption DEF TasksOK
<1>2. /\ status[t] = "none"
      /\ kind' = [kind EXCEPT ![t] = k] /\ status' = [status EXCEPT ![t] = "queued"]
      /\ policy' = [policy EXCEPT ![t] = p] /\ attached' = [attached EXCEPT ![t] = TRUE]
      /\ runs' = [runs EXCEPT ![t] = 1]
      /\ UNCHANGED <<ctx, outcome>>
      /\ \/ step' = [step EXCEPT ![r] = "acquire"] /\ slot' = [slot EXCEPT ![r] = "trying"]
         \/ step' = [step EXCEPT ![r] = "start"] /\ slot' = slot
  BY <1>1 DEF CreateWith, Launch, Sched!Call, sched
<1>3. TableOK'
  BY <1>1, <1>2
     DEF TableOK, Step, Outcome, Life!Status, Life!Busy, Life!Terminal
<1>4. TaskInv(t)'
  <2>1. \A m \in 1..MaxRuns : <<t, m>> \in Runners /\ step[<<t, m>>] = "off" /\ slot[<<t, m>>] = "idle"
    BY <1>1, <1>2, IsRunner DEF TaskInv, Launched, SlotAtStep, TableOK
  <2> QED
    BY <1>1, <1>2, <2>1
       DEF TableOK, SlotOK, Outcome, TaskInv, Launched, LastWorks,
           StatusAtStep, Answers, SlotAtStep, AtWork, Holding
<1>5. \A u \in Tasks : u # t => TaskInv(u)'
  BY <1>1, <1>2, OthersFrame DEF TableOK, SlotOK
<1> QED
  BY <1>3, <1>4, <1>5 DEF TasksOK

\* The answer to a conflict comes with the second runner.
LEMMA ResolveInv ==
  ASSUME TasksOK, SlotOK, NEW t \in Tasks, Resolve(t)
  PROVE  TasksOK'
<1> DEFINE n == runs[t] + 1
<1> DEFINE r == <<t, n>>
<1>0. TableOK /\ n \in 1..MaxRuns
  BY MaxRunsAssumption DEF Resolve, ResolveWith, TasksOK, TableOK
<1>1. r \in Runners /\ Owner(r) = t /\ TableOK /\ TaskInv(t)
  BY <1>0, IsRunner DEF TasksOK
<1>2. /\ status[t] = "conflict" /\ attached[t] /\ n \in 1..MaxRuns
      /\ status' = [status EXCEPT ![t] = "queued"]
      /\ policy' = [policy EXCEPT ![t] = "force"]
      /\ runs' = [runs EXCEPT ![t] = @ + 1]
      /\ UNCHANGED <<kind, ctx, attached, outcome>>
      /\ step' = [step EXCEPT ![r] = "acquire"] /\ slot' = [slot EXCEPT ![r] = "trying"]
  BY <1>0, <1>1
     DEF Resolve, ResolveWith, MayConflict, NeedsSlot, Launch, Sched!Call
<1>3. TableOK'
  BY <1>1, <1>2
     DEF TableOK, Step, Outcome, Life!Status, Life!Busy, Life!Terminal
<1>4. TaskInv(t)'
  BY <1>1, <1>2
     DEF TableOK, SlotOK, Outcome, TaskInv, Launched, LastWorks, StatusAtStep,
         Answers, SlotAtStep, AtWork, Holding
<1>5. \A u \in Tasks : u # t => TaskInv(u)'
  BY <1>1, <1>2, OthersFrame DEF TableOK, SlotOK
<1> QED
  BY <1>3, <1>4, <1>5 DEF TasksOK

\* Cancelling ends a task itself only where no runner works for it.
LEMMA CancelInv ==
  ASSUME TasksOK, SlotOK, NEW t \in Tasks, CancelFileTask(t)
  PROVE  TasksOK'
<1>1. TableOK /\ TaskInv(t)
  BY DEF TasksOK
<1>2. /\ \/ status[t] = "conflict" /\ status' = [status EXCEPT ![t] = "canceled"]
         \/ UNCHANGED <<status, attached>>
      /\ UNCHANGED <<kind, policy, runs, step, outcome, slot>>
  BY <1>1 DEF CancelFileTask, Detach, Present, workers, sched
<1>6. /\ ctx' \in [Tasks -> {"live", "canceled", "expired"}]
      /\ attached' \in [Tasks -> BOOLEAN]
      /\ \A u \in Tasks : u # t => attached'[u] = attached[u]
  BY <1>1, DetachTypes DEF CancelFileTask, TableOK, Canceled
<1>3. TableOK'
  BY <1>1, <1>2, <1>6
     DEF TableOK, Step, Outcome, Life!Status, Life!Busy, Life!Terminal
<1>4. TaskInv(t)'
  BY <1>1, <1>2, <1>6
     DEF TableOK, SlotOK, Outcome, TaskInv, Launched, LastWorks, StatusAtStep,
         Answers, SlotAtStep, AtWork, Holding
<1>5. \A u \in Tasks : u # t => TaskInv(u)'
  BY <1>1, <1>2, <1>6, OthersFrame DEF TableOK, SlotOK
<1> QED
  BY <1>3, <1>4, <1>5 DEF TasksOK

\* Clearing removes what has ended, which no runner works for.
LEMMA ClearInv ==
  ASSUME TasksOK, ClearFileTasks
  PROVE  TasksOK'
<1>1. TableOK
  BY DEF TasksOK
<1>2. /\ \A t \in Tasks : \/ status'[t] = status[t]
                          \/ status[t] \in {"success", "failed", "canceled"} /\ status'[t] = "cleared"
      /\ status' \in [Tasks -> Life!Status]
      /\ UNCHANGED <<kind, policy, ctx, attached, runs, step, outcome, slot>>
  BY <1>1
     DEF ClearFileTasks, Retained, Present, Busy, workers, sched, TableOK,
         Life!Status, Life!Busy, Life!Terminal
<1>3. TableOK'
  BY <1>1, <1>2 DEF TableOK
<1>4. ASSUME NEW t \in Tasks PROVE TaskInv(t)'
  <2>1. CASE status'[t] = status[t]
    BY <1>2, <2>1, Frame DEF TasksOK
  <2>2. CASE status[t] \in {"success", "failed", "canceled"} /\ status'[t] = "cleared"
    BY <1>2, <2>2
       DEF TasksOK, TaskInv, Launched, LastWorks, StatusAtStep, Answers,
           SlotAtStep, AtWork, Holding
  <2> QED
    BY <1>2, <2>1, <2>2
<1> QED
  BY <1>3, <1>4 DEF TasksOK

\* Steps that touch neither table, runners nor slots.
LEMMA TableUntouched ==
  ASSUME TasksOK, UNCHANGED <<kind, status, policy, attached, runs, step, outcome, slot>>,
         ctx' \in [Tasks -> {"live", "canceled", "expired"}]
  PROVE  TasksOK'
<1>1. TableOK'
  BY DEF TasksOK, TableOK
<1>2. ASSUME NEW t \in Tasks PROVE TaskInv(t)'
  BY Frame DEF TasksOK
<1> QED
  BY <1>1, <1>2 DEF TasksOK

\* The invariant of the tasks is preserved by every step.
LEMMA StepTasks ==
  ASSUME TasksOK, SlotOK, [Next]_vars
  PROVE  TasksOK'
<1>0. TableOK
  BY DEF TasksOK
<1>1. ASSUME NEW t \in Tasks, Create(t) PROVE TasksOK'
  BY <1>1, CreateInv, KindsAssumption DEF Create
<1>2. ASSUME NEW t \in Tasks, NEW old \in Tasks, Retry(old, t) PROVE TasksOK'
  BY <1>0, <1>2, CreateInv DEF Retry, TableOK
<1>3. ASSUME NEW t \in Tasks, Expire(t) PROVE TasksOK'
  BY <1>0, <1>3, TableUntouched DEF Expire, workers, sched, TableOK
<1>4. ASSUME NEW v \in LimitRequests, SetLimit(v) PROVE TasksOK'
  BY <1>0, <1>4, TableUntouched
     DEF SetLimit, Sched!SetLimit, Sched!Resize, table, workers, TableOK
<1>5. ASSUME NEW r \in Runners, RunnerStep(r) PROVE TasksOK'
  <2>1. PICK t \in Tasks, n \in 1..MaxRuns : r = <<t, n>>
    BY RunnerIs
  <2> QED
    BY <1>5, <2>1, TakeSlotInv, SleepInv, RefusedInv, StartInv, ConnectFailsInv, ProgressInv,
       ReturnInv, CheckInv, CommitInv, FinishInv, ReleaseInv DEF RunnerStep
<1>6. CASE UNCHANGED vars
  BY <1>0, <1>6, TableUntouched DEF vars, table, workers, sched, TableOK
<1> QED
  BY <1>1, <1>2, <1>3, <1>4, <1>5, <1>6, CancelInv, ResolveInv, ClearInv
     DEF Next
-----------------------------------------------------------------------------
\* The invariant holds initially.
LEMMA InitIInv == Init => IInv
<1> SUFFICES ASSUME Init PROVE IInv
  OBVIOUS
<1>1. SP!Init
  <2>1. CtxDone(ctx) = {}
    BY RunnerIs DEF Init, CtxDone, Owner
  <2>2. \A v \in LimitRequests : Sched!clampTaskLimit(v) = SP!clampTaskLimit(v)
    BY DEF Sched!clampTaskLimit, SP!clampTaskLimit, Sched!MinLimit, SP!MinLimit,
           Sched!MaxLimit, SP!MaxLimit
  <2> QED
    BY <2>1, <2>2 DEF Init, SP!Init
<1>2. SP!IInv
  BY <1>1, SP!InitIInv, LimitRequestsAssumption
<1>3. TableOK
  BY MaxRunsAssumption DEF Init, TableOK, AllKinds, Step, Outcome, Life!Status
<1>4. SlotOK
  BY DEF Init, SlotOK, Sched!PC
<1>5. ASSUME NEW t \in Tasks PROVE TaskInv(t)
  <2>1. \A n \in 1..MaxRuns : <<t, n>> \in Runners
    BY IsRunner
  <2> QED
    BY <2>1, MaxRunsAssumption
       DEF Init, TaskInv, Launched, LastWorks, StatusAtStep, Answers, SlotAtStep, AtWork
<1> QED
  BY <1>2, <1>3, <1>4, <1>5 DEF IInv, TasksOK

\* The invariant is inductive.
LEMMA StepIInv == IInv /\ [Next]_vars => IInv'
<1> SUFFICES ASSUME IInv, [Next]_vars PROVE IInv'
  OBVIOUS
<1>1. TasksOK'
  BY StepTasks DEF IInv
<1>2. ASSUME Next PROVE SP!IInv'
  BY <1>2, StepSched, SchedIInv DEF IInv, TasksOK
<1>3. ASSUME UNCHANGED vars PROVE SP!IInv'
  <2>1. UNCHANGED SP!vars
    BY <1>3 DEF vars, table, sched, SP!vars, CtxDone
  <2> QED
    BY <2>1, SchedIInv DEF IInv
<1>4. SP!IInv'
  BY <1>2, <1>3 DEF IInv
<1>5. (SP!TypeOK)'
  BY <1>4 DEF SP!IInv
<1>6. SlotOK'
  BY <1>5 DEF SP!TypeOK, SlotOK, Sched!PC, SP!PC
<1> QED
  BY <1>1, <1>4, <1>6 DEF IInv

\* The invariant holds always.
LEMMA IInvAlways == Spec => []IInv
  BY InitIInv, StepIInv, PTL DEF Spec

\* Every variable keeps its type; the limit stays in 1..16 here too.
THEOREM TypeCorrect == Spec => []TypeOK
<1>1. IInv => TypeOK
  BY SchedActions DEF IInv, TasksOK, TableOK, TypeOK, SP!IInv
<1> QED
  BY <1>1, IInvAlways, PTL

\* A task is busy exactly while one goroutine works for it, and never two.
THEOREM OneRunner == Spec => []BusyIffOneRunner
<1>1. IInv => BusyIffOneRunner
  <2> SUFFICES ASSUME IInv, NEW t \in Tasks
      PROVE  /\ (status[t] \in Busy) <=> (\E r \in RunnersOf(t) : Worker(r))
             /\ \A r, q \in RunnersOf(t) : Worker(r) /\ Worker(q) => r = q
    BY DEF BusyIffOneRunner
  <2>1. Busy = {"queued", "scanning", "running"} /\ Working = AtWork
    BY DEF Busy, Life!Busy, Working, Step, AtWork
  <2>2. TaskInv(t) /\ TableOK
    BY DEF IInv, TasksOK
  <2>3. ASSUME NEW r \in RunnersOf(t), Worker(r)
        PROVE  r = <<t, runs[t]>> /\ status[t] \in Busy
    <3>1. PICK n \in 1..MaxRuns : r = <<t, n>>
      BY RunnerIs DEF RunnersOf, Owner
    <3> QED
      BY <2>1, <2>2, <2>3, <3>1 DEF Worker, TaskInv, LastWorks
  <2>4. ASSUME status[t] \in Busy
        PROVE  \E r \in RunnersOf(t) : Worker(r)
    <3>1. runs[t] \in 1..MaxRuns /\ step[<<t, runs[t]>>] \in AtWork
      BY <2>1, <2>2, <2>4 DEF TaskInv, LastWorks
    <3> QED
      BY <2>1, <3>1, IsRunner DEF RunnersOf, Worker
  <2> QED
    BY <2>3, <2>4
<1> QED
  BY <1>1, IInvAlways, PTL

\* A conflict is asked about at most once in the life of a task, and while
\* it shows the context its second runner needs is there.
THEOREM ConflictsAnswerable == Spec => []ConflictIsAnswerable
<1>1. IInv => ConflictIsAnswerable
  <2> SUFFICES ASSUME IInv, NEW t \in Tasks
      PROVE  /\ status[t] = "conflict" => attached[t] /\ policy[t] = "ask" /\ runs[t] = 1
             /\ runs[t] <= 2
    BY DEF ConflictIsAnswerable
  <2>1. TaskInv(t) /\ runs[t] \in 0..MaxRuns
    BY DEF IInv, TasksOK, TableOK
  <2> QED
    BY <2>1, MaxRunsAssumption DEF TaskInv, Answers, Launched
<1> QED
  BY <1>1, IInvAlways, PTL

\* The scheduler's counter is the number of runners that own a slot, and
\* each of these is at a step from which it will release it.
THEOREM NoSlotLeaks == Spec => []NoSlotLeak
<1>1. IInv => NoSlotLeak
  <2> SUFFICES ASSUME IInv PROVE NoSlotLeak
    OBVIOUS
  <2>1. \A r \in Runners : slot[r] = "held" => step[r] \in Holding
    BY RunnerIs DEF IInv, TasksOK, TaskInv, SlotAtStep
  <2>2. SP!Holders = {r \in Runners : step[r] \in Holding /\ slot[r] = "held"}
    BY <2>1 DEF SP!Holders
  <2>3. active = SP!Cardinality(SP!Holders)
    BY DEF IInv, SP!IInv, SP!SlotAccounting
  <2>4. SP!Cardinality(SP!Holders) = Cardinality(SP!Holders)
    BY DEF SP!Cardinality, Cardinality
  <2> QED
    BY <2>1, <2>2, <2>3, <2>4 DEF NoSlotLeak
<1> QED
  BY <1>1, IInvAlways, PTL

-----------------------------------------------------------------------------
\* What may follow each status in the life cycle.
LEMMA Follows ==
  /\ Life!Successors["none"] = {"queued"}
  /\ Life!Successors["queued"] = {"scanning", "failed", "canceled"}
  /\ Life!Successors["scanning"] = {"running", "conflict", "success", "failed", "canceled"}
  /\ Life!Successors["running"] = {"success", "failed", "canceled"}
  /\ Life!Successors["conflict"] = {"queued", "canceled"}
  BY DEF Life!Successors, Life!Status, Life!Busy, Life!Terminal

\* Changing one status to a permitted one is a step of the life cycle.
LEMMA StatusMoves ==
  ASSUME NEW t \in Tasks, NEW s \in Life!Successors[status[t]],
         status[t] \in {"none", "queued", "scanning", "running", "conflict"},
         status' = [status EXCEPT ![t] = s]
  PROVE  Life!Next
  BY DEF Life!Next, Life!Move, Life!Terminal

\* Every step of the table and the goroutines is a step of the life cycle
\* or does not show in it.
LEMMA StepLife == IInv /\ [Next]_vars => [Life!Next]_status
<1> SUFFICES ASSUME IInv, [Next]_vars PROVE Life!Next \/ UNCHANGED status
  OBVIOUS
<1>0. TableOK /\ \A t \in Tasks : TaskInv(t)
  BY DEF IInv, TasksOK
<1>1. ASSUME NEW t \in Tasks, NEW k, NEW p, CreateWith(t, k, p) PROVE Life!Next
  BY <1>1, Follows, StatusMoves DEF CreateWith
<1>2. ASSUME NEW t \in Tasks, Create(t) \/ \E old \in Tasks : Retry(old, t) PROVE Life!Next
  BY <1>1, <1>2 DEF Create, Retry
<1>3. ASSUME NEW t \in Tasks, CancelFileTask(t) \/ Resolve(t) \/ Expire(t)
      PROVE  Life!Next \/ UNCHANGED status
  BY <1>3, Follows, StatusMoves DEF CancelFileTask, Resolve, ResolveWith, Expire
<1>4. ASSUME ClearFileTasks PROVE Life!Next
  BY <1>0, <1>4
     DEF ClearFileTasks, Retained, Present, Busy, TableOK, Life!Next,
         Life!Clear,
     Life!Status, Life!Busy, Life!Terminal
<1>5. ASSUME NEW r \in Runners, RunnerStep(r) PROVE Life!Next \/ UNCHANGED status
  <2>1. PICK t \in Tasks, n \in 1..MaxRuns : r = <<t, n>>
    BY RunnerIs
  <2>2. Owner(r) = t /\ TaskInv(t)
    BY <1>0, <2>1 DEF Owner
  <2>3. ASSUME Start(r) PROVE Life!Next
    <3>1. status[t] = "queued"
      BY <2>1, <2>2, <2>3 DEF Start, TaskInv, StatusAtStep
    <3> QED
      BY <2>2, <2>3, <3>1, Follows, StatusMoves DEF Start, SetStatus, Present
  <2>4. ASSUME Progress(r) PROVE Life!Next \/ UNCHANGED status
    <3>1. status[t] \in {"scanning", "running"}
      BY <2>1, <2>2, <2>4 DEF Progress, TaskInv, StatusAtStep
    <3>2. status' = [status EXCEPT ![t] = "running"]
      BY <2>2, <2>4, <3>1 DEF Progress, SetStatus, Present
    <3>3. CASE status[t] = "scanning"
      BY <3>2, <3>3, Follows, StatusMoves
    <3>4. CASE status[t] = "running"
      BY <1>0, <3>2, <3>4 DEF TableOK
    <3> QED
      BY <3>1, <3>3, <3>4
  <2>5. ASSUME Commit(r) PROVE Life!Next
    <3>1. /\ status[t] \in {"scanning", "running"}
          /\ outcome[r] = "conflict" => status[t] = "scanning"
      BY <2>1, <2>2, <2>5 DEF Commit, TaskInv, StatusAtStep
    <3> QED
      BY <2>2, <2>5, <3>1, Follows, StatusMoves DEF Commit, SetStatus, Present
  <2>6. ASSUME Finish(r) PROVE Life!Next
    <3>1. status[t] \in {"queued", "scanning", "running"}
      BY <2>1, <2>2, <2>6 DEF Finish, TaskInv, LastWorks, AtWork
    <3> QED
      BY <2>2, <2>6, <3>1, Follows, StatusMoves DEF Finish, SetStatus, Present
  <2>7. ASSUME ~(Start(r) \/ Progress(r) \/ Commit(r) \/ Finish(r)) PROVE UNCHANGED status
    BY <1>5, <2>7
       DEF RunnerStep, TakeSlot, Sleep, WakeUp, Refused, ConnectFails, Return,
       ReturnWith, Check, Finalize, Release, table
  <2> QED
    BY <2>3, <2>4, <2>5, <2>6, <2>7
<1>6. ASSUME NEW v \in LimitRequests, SetLimit(v) PROVE UNCHANGED status
  BY <1>6 DEF SetLimit, table
<1>7. ASSUME UNCHANGED vars PROVE UNCHANGED status
  BY <1>7 DEF vars, table
<1> QED
  BY <1>2, <1>3, <1>4, <1>5, <1>6, <1>7 DEF Next

\* The file tasks implement the life cycle the windows rely on: what has
\* ended stays as it ended until it is cleared, and what is cleared does
\* not come back.
THEOREM LifecycleRefinement == Spec => ImplementsLifecycle
<1>1. Init => Life!Init
  BY DEF Init, Life!Init
<1> QED
  BY <1>1, StepLife, IInvAlways, PTL DEF Spec, ImplementsLifecycle, Life!Spec
=============================================================================
